---- MODULE Spec2Model ----
(***************************************************************************)
(* Model of the download -> upload pipeline of the video downloader        *)
(* (src/src/gui.py, DownloadUploadWorker) and of the upload dispatcher     *)
(* (src/src/uploader.py, upload_single_file).                              *)
(*                                                                         *)
(* One pipeline run is three cooperative tasks on one asyncio event loop   *)
(* (main_pipeline, downloader_task, uploader_task), the worker threads     *)
(* that asyncio.to_thread starts for blocking calls, and the caller (GUI)  *)
(* thread, which may set the cancellation flag at any moment.  An action   *)
(* of the model is the code one task runs between two suspension points.   *)
(* A task runs only while main_pipeline is suspended (in asyncio.sleep or  *)
(* in asyncio.gather); worker threads and the caller run at any time.      *)
(*                                                                         *)
(* Strings of the program written in Cyrillic are transliterated:          *)
(*   "успех" -> "success", "ошибка" -> "error",                            *)
(*   "Сохранить локально" -> "Save locally".                               *)
(***************************************************************************)
EXTENDS Integers, Sequences, FiniteSets, TLC

\* Longest URL list a run is given.
MaxUrls == 3

\* The URLs of the input lists.  The pipeline never looks into a URL, it
\* only hands it to the download step and copies it into the result, so one
\* list per length is given: u1, u2, u1, ... (from the third entry on a URL
\* is named twice).
UrlNames == <<"u1", "u2">>

LOCAL_SAVE_OPTION == "Save locally"
STATUS_SUCCESS == "success"
STATUS_ERROR == "error"

\* Keys of the strategy registry.
UPLOADER_STRATEGIES == {"Google Drive", "Yandex.Disk", LOCAL_SAVE_OPTION}

\* Strategies whose upload runs in a worker thread (asyncio.to_thread); the
\* other cloud strategy awaits its network calls on the event loop.
ThreadedStrategies == {"Google Drive"}

VARIABLES
    urls,               \* self.urls
    cloud,              \* self.cloud
    cancellation_flag,  \* self.cancellation_flag._flag
    pcMain,             \* position of run()/main_pipeline()
    mainExc,            \* the exception main_pipeline is being left with
    temp_dir_manager,   \* "None" or "vdu" (the TemporaryDirectory)
    target_dir,         \* "caller" (self.folder), "vdu", or "unset"
    dirs,               \* state of the two directories on disk
    queue,              \* the asyncio.Queue: download results, then None
    dlState,            \* state of the downloader task
    dlIndex,            \* i of enumerate(self.urls), 0-based
    dlResults,          \* downloader_task's results
    dlThread,           \* the to_thread(download_video) call: queued, running
    dlFuture,           \* outcome handed back by the thread, "none" if none
    ulState,            \* state of the uploader task
    ulResults,          \* uploader_task's results
    uploaded_count,     \* uploader_task's uploaded_count
    ulCall,             \* the upload in flight: queued to a thread, running
    ulCurrent,          \* the download result being uploaded
    ulFuture,           \* outcome of the strategy's upload, "none" if none
    events,             \* every signal emitted, in emission order
    putLog,             \* history: every value put on the queue, in order
    uploadCalls,        \* history: every task given to upload_single_file
    dlStarted,          \* history: index of every download_video call begun
    cancelAt,           \* history: when the flag was set
    \* upload_single_file and the strategies, on their own
    task,               \* the task given to upload_single_file
    cred,               \* what the auth getters find: "valid", "invalid", "none"
    store,              \* the backend: its folders and files
    upc,                \* position inside upload_single_file / the strategy
    upRun,              \* number of upload_single_file calls so far
    parent_id,          \* _create_folders_chain's parent_id
    segs,               \* path segments the chain's loop has not reached yet
    upResult,           \* what the last upload_single_file call gave its caller
    strategyOutcome,    \* history: how the strategy's upload ended in that call
    strategyLog,        \* history: strategies instantiated and invoked
    apiLog,             \* history: every backend call
    chainIds,           \* history: the id each _create_folders_chain returned, by call
    \* download_video of downloader.py, on its own
    dvDir,              \* the files in temp_dir
    dvCall,             \* the download_video calls, one per thread
    batchPending,       \* as_completed: the futures it has not yielded yet
    batchResults,       \* results of batch_download_videos
    \* the main window and the pre-flight worker
    form,               \* url_edit, cloud_combo, folder_edit
    ui,                 \* the buttons, the progress bar, the status, the flag
    pre,                \* the PreFlightCheckWorker of the last start
    pw,                 \* the DownloadUploadWorker the window started
    guiQueue,           \* signals emitted by workers, not yet delivered
    starts,             \* number of clicks on the start button
    shown,              \* the message boxes shown since the last click on start
    workers,            \* history: the workers given to the thread pool
    modal,              \* the message box a slot is waiting in, "none" if none
    cleaning,           \* earlier pipeline workers still to leave run()
    edits,              \* edits of the form so far
    \* process_single_video of main.py
    psvCalls,           \* the calls made, each with what it did and how it ended
    psvDirs,            \* the temporary directories that exist
    psvBatch,           \* batch_download_and_upload: futures left, results
    \* the credential getters of auth.py
    yCfg,               \* config.YANDEX_DISK_TOKEN
    yCache,             \* _yandex_token_cache
    gEnv,               \* credentials.json is there or not; what token.json holds
    gCache,             \* _google_creds_cache
    authCalls,          \* history: the getters' calls and what each did
    \* save_specific_settings_to_env of config.py
    envFile,            \* the .env file: whether it exists and its lines
    envSaves            \* history: the calls, what they were given and found

pipeVars == <<urls, cloud, cancellation_flag, pcMain, mainExc, temp_dir_manager,
              target_dir, dirs, queue, dlState, dlIndex, dlResults, dlThread,
              dlFuture, ulState, ulResults, uploaded_count, ulCall, ulCurrent,
              ulFuture, events, putLog, uploadCalls, dlStarted, cancelAt>>

upVars == <<task, cred, store, upc, upRun, parent_id, segs,
            upResult, strategyOutcome, strategyLog, apiLog, chainIds>>

dvVars == <<dvDir, dvCall, batchPending, batchResults>>

\* What the actions of each part leave alone.
guiVars == <<form, ui, pre, pw, guiQueue, starts, shown, workers, modal,
            cleaning, edits>>

psvVars == <<psvCalls, psvDirs, psvBatch>>

\* The functions that are called on their own.
authVars == <<yCfg, yCache, gEnv, gCache, authCalls>>
envVars == <<envFile, envSaves>>
libVars == <<psvVars, authVars, envVars>>

sideVars == <<upVars, dvVars, guiVars, libVars>>
outsideUpload == <<pipeVars, dvVars, guiVars, libVars>>
outsideDownload == <<pipeVars, upVars, guiVars, libVars>>
outsideGui == <<pipeVars, upVars, dvVars, libVars>>
outsidePsv == <<pipeVars, upVars, dvVars, guiVars, authVars, envVars>>
outsideAuth == <<pipeVars, upVars, dvVars, guiVars, psvVars, envVars>>
outsideEnv == <<pipeVars, upVars, dvVars, guiVars, psvVars, authVars>>

vars == <<pipeVars, sideVars>>

mainVars == <<pcMain, mainExc, temp_dir_manager, target_dir, dirs>>
dlVars == <<dlState, dlIndex, dlResults, dlThread, dlFuture, dlStarted>>
ulVars == <<ulState, ulResults, uploaded_count, ulCall, ulCurrent, ulFuture,
            uploadCalls>>

-----------------------------------------------------------------------------
\* Values

UrlAt(i) == UrlNames[((i - 1) % Len(UrlNames)) + 1]
UrlLists == {[i \in 1..n |-> UrlAt(i)] : n \in 0..MaxUrls}

\* The download step's contract: one result per call, success with the path
\* of the file (the file of the i-th call is named i) or error.
DownloadOutcomes == {STATUS_SUCCESS, STATUS_ERROR}

download_video(url, i, outcome) ==
    IF outcome = STATUS_SUCCESS
    THEN [status |-> STATUS_SUCCESS, url |-> url, path |-> i]
    ELSE [status |-> STATUS_ERROR, url |-> url, path |-> 0]

\* What the selected strategy's upload does: return its result or raise.
StrategyOutcomes == {"returns", "raises"}

\* The dispatcher: an unregistered backend and a raising strategy both give
\* an error result with the task's filename; it never raises.
upload_single_file(t, outcome) ==
    IF t.cloud_storage \notin UPLOADER_STRATEGIES
    THEN [status |-> STATUS_ERROR, filename |-> t.filename]
    ELSE IF outcome = "raises"
         THEN [status |-> STATUS_ERROR, filename |-> t.filename]
         ELSE [status |-> STATUS_SUCCESS, filename |-> t.filename]

\* Signals.  One record shape for the three signals; the fields a signal
\* does not carry hold a default.  The error signal of a task names the
\* item it is about; the error signal of run() carries a text, the sequence
\* of its pieces.
ProgressEvent(src, percent) ==
    [type |-> "progress", src |-> src, percent |-> percent, item |-> 0,
     text |-> <<>>, download_results |-> <<>>, upload_results |-> <<>>,
     was_cancelled |-> FALSE]

ErrorEvent(src, item) ==
    [type |-> "error", src |-> src, percent |-> 0, item |-> item,
     text |-> <<>>, download_results |-> <<>>, upload_results |-> <<>>,
     was_cancelled |-> FALSE]

FinishedEvent(src, d, u, c) ==
    [type |-> "finished", src |-> src, percent |-> 0, item |-> 0,
     text |-> <<>>, download_results |-> d, upload_results |-> u,
     was_cancelled |-> c]

\* Exceptions: the class and the arguments given to the constructor.
NoException == [class |-> "none", args |-> <<>>]

\* raise CancelledError("Операция отменена")
CancelledError == [class |-> "CancelledError", args |-> <<"operation cancelled">>]

\* What TemporaryDirectory(prefix="vdu_") raises when the directory cannot
\* be made, and what its cleanup() raises when the directory cannot be
\* removed: an OSError with errno, strerror and filename.
MkdtempError == [class |-> "OSError",
                 args |-> <<"28", "No space left on device", "vdu">>]
CleanupError == [class |-> "OSError",
                 args |-> <<"39", "Directory not empty", "vdu">>]

\* What a download_video call raises.
DownloadException == [class |-> "Exception", args |-> <<"download failed">>]

\* str(e): "[Errno n] strerror: 'filename'" for an OSError made with the
\* three, the empty text without arguments, the argument's text with one,
\* the text of the tuple with more.
ExceptionStr(e) ==
    IF e.class = "OSError" /\ Len(e.args) = 3
    THEN <<"[Errno ", e.args[1], "] ", e.args[2], ": '", e.args[3], "'">>
    ELSE IF Len(e.args) = 0 THEN <<>>
    ELSE IF Len(e.args) = 1 THEN <<e.args[1]>>
    ELSE <<"(">> \o e.args \o <<")">>

-----------------------------------------------------------------------------
\* Pure helpers of the pipeline

None == [status |-> "None", url |-> "None", path |-> 0]

\* Variant: the local destination is not recognised.
is_local_save_Never(c) == FALSE

is_local_save(c) == c = LOCAL_SAVE_OPTION

\* int(5 + (i / (total * 2)) * 95); the float expression equals this integer
\* one for every total below 95.
DownloaderProgress(i, total) == 5 + (i * 95) \div (total * 2)

\* Variant: the upload half does not start where the download half ends.
UploaderProgress_NoOffset(count, total) == 5 + (count * 95) \div (total * 2)

\* int(5 + ((total + uploaded_count) / (total * 2)) * 95)
UploaderProgress(count, total) == 5 + ((total + count) * 95) \div (total * 2)

\* Variant: an item is put twice.
QueuePut_Twice(q, x) == Append(Append(q, x), x)

\* Variant: a stack, the newest item is taken first.
QueuePut_Front(q, x) == <<x>> \o q

\* asyncio.Queue: put appends, get takes the oldest.
QueuePut(q, x) == Append(q, x)
QueueFront(q) == Head(q)

\* Variant: a failed result is not recorded.
AppendResult_DropFailed(results, r) ==
    IF r.status = STATUS_ERROR THEN results ELSE Append(results, r)

\* results.append(result)
AppendResult(results, r) == Append(results, r)

\* Variant: every result is queued, whatever its status.
ShouldEnqueue_Always(result) == TRUE

\* if result["status"] == "успех": put it on the queue
ShouldEnqueue(result) == result.status = STATUS_SUCCESS

\* Variant: a failed upload is not reported.
UploadFailed_Never(result) == FALSE

\* if upload_result["status"] == "ошибка": emit error
UploadFailed(result) == result.status = STATUS_ERROR

\* The upload task built from a download result.
UploadTask(download_result) ==
    [file_path |-> download_result.path, cloud_storage |-> cloud,
     filename |-> download_result.path]

\* tasks_to_monitor and all(t.done() for t in tasks_to_monitor)
TaskDone(st) == st \in {"done", "cancelled", "raised"}
TasksToMonitor == IF ulState = "none" THEN {dlState} ELSE {dlState, ulState}

\* all(t.done() for t in tasks_to_monitor)
AllDone == \A st \in TasksToMonitor : TaskDone(st)

\* if self.cancellation_flag.is_set()
IsCancelRequested == cancellation_flag

\* t.cancel(): a task that is not done ends cancelled, a done task is left.
CancelTask(st) == IF st \in {"none", "done", "raised"} THEN st ELSE "cancelled"

\* finally: if temp_dir_manager: temp_dir_manager.cleanup()
\* The ways the block can end: cleanup() removes the directory, or it raises
\* and the directory is still there (a file the tree walk cannot remove, or
\* a file that a download thread the cancellation left running wrote into
\* the directory after it was emptied).
FinallyCleanup(manager, d) ==
    IF manager # "None"
    THEN {[dirs |-> [d EXCEPT !.vdu = "removed"], raised |-> NoException],
          [dirs |-> d, raised |-> CleanupError]}
    ELSE {[dirs |-> d, raised |-> NoException]}

\* upload_results = uploader.result() if uploader else []
UploaderResult == IF ulState = "none" THEN <<>> ELSE ulResults

\* run(): except CancelledError: self.signals.finished.emit([], [], True)
RunOnCancelled(ev) == Append(ev, FinishedEvent("run", <<>>, <<>>, TRUE))

\* The error signal of run() with its text.
RunError(text) == [ErrorEvent("run", 0) EXCEPT !.text = text]

\* Variant: the exception handler emits finished as well.
RunOnException_AlsoFinished(ev, e) ==
    Append(Append(ev, RunError(ExceptionStr(e))),
           FinishedEvent("run", <<>>, <<>>, TRUE))

\* run(): except Exception as e: self.signals.error.emit(str(e))
RunOnException(ev, e) == Append(ev, RunError(ExceptionStr(e)))

\* run(): what the two handlers make of the way asyncio.run ended; a normal
\* return reaches neither.
RunHandlers(ev, e) ==
    IF e = NoException THEN ev
    ELSE IF e.class = "CancelledError" THEN RunOnCancelled(ev)
    ELSE RunOnException(ev, e)

\* The event loop gives a task the processor only while main_pipeline is
\* suspended in asyncio.sleep or asyncio.gather.
LoopFree == pcMain \in {"sleep", "gather"}

Total == Len(urls)

-----------------------------------------------------------------------------
\* upload_single_file and the three strategies, run on their own against a
\* backend that holds folders and files.

\* Number of upload_single_file calls made with the same task.
MaxRuns == 2

\* The id of the backend's root folder ("root" in _upload_sync).
ROOT == 0

\* A backend name that is not a key of UPLOADER_STRATEGIES.
UnregisteredStorage == "Dropbox"

\* UPLOADER_STRATEGIES[name], the class registered under a name.
\* Variant: two registrations are swapped.
StrategyClassOf_Swapped(name) ==
    CASE name = "Google Drive" -> "YandexDiskUploaderStrategy"
      [] name = "Yandex.Disk" -> "GoogleDriveUploaderStrategy"
      [] name = LOCAL_SAVE_OPTION -> "LocalSaveStrategy"
      [] OTHER -> "None"

StrategyClassOf(name) ==
    CASE name = "Google Drive" -> "GoogleDriveUploaderStrategy"
      [] name = "Yandex.Disk" -> "YandexDiskUploaderStrategy"
      [] name = LOCAL_SAVE_OPTION -> "LocalSaveStrategy"
      [] OTHER -> "None"

\* A destination path is the sequence of its parts between slashes: "" is
\* <<"">>, "a/b" is <<"a", "b">>, "/a/b/" is <<"", "a", "b", "">>.
Paths == {<<"">>, <<"a">>, <<"a", "b">>, <<"", "a", "b", "">>}

FileName == "video.mp4"

Tasks ==
    {[cloud_storage |-> c, cloud_folder_path |-> p, filename |-> FileName] :
        c \in UPLOADER_STRATEGIES \cup {UnregisteredStorage}, p \in Paths}

CredStates == {"valid", "invalid", "none"}

\* Number of bytes of the file upload_single_file is given.
SourceSize == 2

\* Backend entries.  A folder's content is 0; a file's content is the number
\* of the upload_single_file call that wrote it, and its size the number of
\* bytes of the source it holds.
Folder(id, parent, name) ==
    [id |-> id, parent |-> parent, name |-> name, kind |-> "folder",
     content |-> 0, size |-> 0]

File(id, parent, name, content, size) ==
    [id |-> id, parent |-> parent, name |-> name, kind |-> "file",
     content |-> content, size |-> size]

\* What the backend holds before the first call: nothing, folder a, or
\* folders a and a/b.  No two entries of a folder share a name.
InitStores == {{}, {Folder(1, ROOT, "a")},
               {Folder(1, ROOT, "a"), Folder(2, 1, "b")}}

\* How one backend call ends: it works, the backend's API error is raised
\* (HttpError, YaDiskError, OSError), or something else is raised.
Faults == {"ok", "api_error", "unexpected"}

\* str.strip("/") on a path.
RECURSIVE StripLeft(_)
StripLeft(p) == IF Len(p) > 1 /\ Head(p) = "" THEN StripLeft(Tail(p)) ELSE p

RECURSIVE StripRight(_)
StripRight(p) ==
    IF Len(p) > 1 /\ p[Len(p)] = ""
    THEN StripRight(SubSeq(p, 1, Len(p) - 1))
    ELSE p

Strip(p) == StripRight(StripLeft(p))

\* if cloud_folder_path: the empty string is falsy.
Truthy(p) == p # <<"">>

\* The non-empty parts of a path, in order.
NonEmpty(p) ==
    LET named(x) == x # ""
    IN SelectSeq(p, named)

MaxId(st) ==
    IF st = {} THEN ROOT
    ELSE CHOOSE m \in {n.id : n \in st} : \A n \in st : n.id <= m

\* The id the backend gives the next entry it creates.
NewId(st) == MaxId(st) + 1

\* files().list(q = "'parent' in parents and name = 'name' and folder")
ListFolders(st, parent, name) ==
    {n \in st : n.kind = "folder" /\ n.parent = parent /\ n.name = name}

FilesNamed(st, parent, name) ==
    {n \in st : n.kind = "file" /\ n.parent = parent /\ n.name = name}

\* The ids of the folders a path of non-empty parts leads to from the given
\* folders: empty when a part is missing.
RECURSIVE Resolve(_, _, _)
Resolve(st, from, parts) ==
    IF parts = <<>> THEN from
    ELSE Resolve(st,
                 {n.id : n \in {m \in st : m.kind = "folder" /\ m.parent \in from
                                            /\ m.name = Head(parts)}},
                 Tail(parts))

\* disk.exists("/" + path)
Exists(st, p) == Resolve(st, {ROOT}, NonEmpty(p)) # {}

\* One backend call, as recorded in the history, with the way the backend
\* was set to answer it.
ApiCall(run, op, parent, name, p, fault) ==
    [run |-> run, op |-> op, parent |-> parent, name |-> name, path |-> p,
     fault |-> fault]

\* What a strategy's upload hands to the dispatcher.
StrategyResult(ref) == [status |-> STATUS_SUCCESS, ref |-> ref]
NoStrategyResult == [status |-> "none", ref |-> ROOT]

Returns(result) ==
    [kind |-> "returns", exc |-> "", msg |-> "", result |-> result]

Raises(exc, msg) ==
    [kind |-> "raises", exc |-> exc, msg |-> msg, result |-> NoStrategyResult]

\* No upload of a strategy has ended in the current call.
NoOutcome == [kind |-> "none", exc |-> "", msg |-> "", result |-> NoStrategyResult]

\* The exception a failed backend call becomes on its way out of a
\* strategy: the API's own error is wrapped in UploadError, anything else
\* passes through as it is.
Wrapped(fault) == IF fault = "api_error" THEN "UploadError" ELSE "Exception"

\* The exception classes a strategy can raise.
ExceptionClasses == {"UploadError", "AuthError", "Exception"}

\* except Exception: every one of these classes derives from Exception.
\* Variant: only UploadError is caught.
Caught_OnlyUploadError(exc) == exc = "UploadError"

Caught(exc) == exc \in ExceptionClasses

\* The dispatcher's result for a backend name that is not registered.  The
\* error text is the sequence of the pieces of the formatted message.
\* Variant: the message does not name the backend.
StrategyNotFound_Anonymous(t) ==
    [status |-> STATUS_ERROR, filename |-> t.filename,
     error |-> <<"strategy not found">>, ref |-> ROOT]

StrategyNotFound(t) ==
    [status |-> STATUS_ERROR, filename |-> t.filename,
     error |-> <<"strategy not found for storage", t.cloud_storage>>,
     ref |-> ROOT]

\* The dispatcher's result once the strategy's upload has ended: the
\* strategy's result with the filename added, or an error result with the
\* filename and str(e); an exception that is not caught reaches the caller.
UploadEnded(t, outcome) ==
    IF outcome.kind = "returns"
    THEN [status |-> outcome.result.status, filename |-> t.filename,
          error |-> <<>>, ref |-> outcome.result.ref]
    ELSE IF Caught(outcome.exc)
    THEN [status |-> STATUS_ERROR, filename |-> t.filename,
          error |-> <<outcome.msg>>, ref |-> ROOT]
    ELSE [status |-> "raised", filename |-> "", error |-> <<outcome.msg>>,
          ref |-> ROOT]

\* The result slot while no call has ended.
NoUploadResult ==
    [status |-> "none", filename |-> "", error |-> <<>>, ref |-> ROOT]

\* get_yandex_token() and get_google_drive_credentials(): both raise
\* AuthError when nothing is configured, so neither returns None.
\* Variant: with nothing configured a getter hands out a usable credential.
AuthGetter_Anonymous(c) ==
    [raised |-> FALSE, value |-> IF c = "none" THEN "valid" ELSE c]

AuthGetter(c) ==
    IF c = "none" THEN [raised |-> TRUE, value |-> "None"]
    ELSE [raised |-> FALSE, value |-> c]

\* _find_or_create_folder: list the folders of that name under the parent
\* and return the first; create one only when the list is empty.  fl and fc
\* say how the list and the create call end.  With no two folders of a name
\* under one parent the list has at most one entry.
\* Variant: the folder is created without looking for it first.
find_or_create_folder_NoQuery(st, run, parent, name, fl, fc) ==
    LET createCall == ApiCall(run, "create_folder", parent, name, <<>>, fc)
    IN IF fc # "ok"
       THEN [store |-> st, id |-> parent, calls |-> <<createCall>>,
             exc |-> Wrapped(fc), msg |-> "error creating folder"]
       ELSE [store |-> st \cup {Folder(NewId(st), parent, name)},
             id |-> NewId(st), calls |-> <<createCall>>,
             exc |-> "", msg |-> ""]

\* Variant: an error of the list call is passed over and the folder created.
find_or_create_folder_IgnoresListError(st, run, parent, name, fl, fc) ==
    LET found == IF fl = "ok" THEN ListFolders(st, parent, name) ELSE {}
        listCall == ApiCall(run, "list", parent, name, <<>>, fl)
        createCall == ApiCall(run, "create_folder", parent, name, <<>>, fc)
    IN IF found # {}
       THEN [store |-> st, id |-> (CHOOSE n \in found : TRUE).id,
             calls |-> <<listCall>>, exc |-> "", msg |-> ""]
       ELSE IF fc # "ok"
       THEN [store |-> st, id |-> parent, calls |-> <<listCall, createCall>>,
             exc |-> Wrapped(fc), msg |-> "error creating folder"]
       ELSE [store |-> st \cup {Folder(NewId(st), parent, name)},
             id |-> NewId(st), calls |-> <<listCall, createCall>>,
             exc |-> "", msg |-> ""]

find_or_create_folder(st, run, parent, name, fl, fc) ==
    LET found == ListFolders(st, parent, name)
        listCall == ApiCall(run, "list", parent, name, <<>>, fl)
        createCall == ApiCall(run, "create_folder", parent, name, <<>>, fc)
    IN IF fl # "ok"
       THEN [store |-> st, id |-> parent, calls |-> <<listCall>>,
             exc |-> Wrapped(fl), msg |-> "error looking up folder"]
       ELSE IF found # {}
       THEN [store |-> st, id |-> (CHOOSE n \in found : TRUE).id,
             calls |-> <<listCall>>, exc |-> "", msg |-> ""]
       ELSE IF fc # "ok"
       THEN [store |-> st, id |-> parent, calls |-> <<listCall, createCall>>,
             exc |-> Wrapped(fc), msg |-> "error creating folder"]
       ELSE [store |-> st \cup {Folder(NewId(st), parent, name)},
             id |-> NewId(st), calls |-> <<listCall, createCall>>,
             exc |-> "", msg |-> ""]

\* files().create with a media body: the drive adds a file, whatever files
\* of that name the folder already holds.
CreateFile(st, parent, name, content) ==
    st \cup {File(NewId(st), parent, name, content, SourceSize)}

\* The file of that name in the folder is replaced, or created when there
\* is none, and holds the first size bytes of the source.
WriteFile(st, parent, name, content, size) ==
    (st \ FilesNamed(st, parent, name))
        \cup {File(NewId(st), parent, name, content, size)}

\* disk.upload(overwrite = True) and a shutil.copy2 that returned.
PutFile(st, parent, name, content) ==
    WriteFile(st, parent, name, content, SourceSize)

\* The stores a shutil.copy2 that raised can leave.  It opens the source,
\* opens the destination for writing, which creates or empties it, copies
\* the bytes and then the file's times and mode: it can fail before the
\* destination is opened, after some of the bytes, or after all of them.
CopyFailed(st, parent, name, content) ==
    {st} \cup {WriteFile(st, parent, name, content, size) :
                  size \in 0..SourceSize}

Front(p) == SubSeq(p, 1, Len(p) - 1)

\* disk.mkdir("/" + path) creates the last folder of the path; the disk
\* refuses when the folder above it does not exist.
MkdirPossible(st, p) ==
    /\ NonEmpty(p) # <<>>
    /\ Resolve(st, {ROOT}, Front(NonEmpty(p))) # {}
    /\ ~Exists(st, p)

Mkdir(st, p) ==
    LET parts == NonEmpty(p)
        above == CHOOSE id \in Resolve(st, {ROOT}, Front(parts)) : TRUE
    IN st \cup {Folder(NewId(st), above, parts[Len(parts)])}

\* Path.mkdir(parents = True, exist_ok = True): every missing folder of the
\* path is created, from the top.
RECURSIVE MakeDirs(_, _, _)
MakeDirs(st, parent, parts) ==
    IF parts = <<>> THEN [store |-> st, id |-> parent]
    ELSE LET found == ListFolders(st, parent, Head(parts))
         IN IF found # {}
            THEN MakeDirs(st, (CHOOSE n \in found : TRUE).id, Tail(parts))
            ELSE MakeDirs(st \cup {Folder(NewId(st), parent, Head(parts))},
                          NewId(st), Tail(parts))

\* The stores a Path.mkdir(parents = True, exist_ok = True) that raised can
\* leave: the folders it made before the one that failed.
MakeDirsFailed(st, parent, parts) ==
    {MakeDirs(st, parent, SubSeq(parts, 1, k)).store : k \in 0..(Len(parts) - 1)}
        \cup {st}

-----------------------------------------------------------------------------
\* download_video and find_downloaded_file of downloader.py

\* Number of download_video calls running side by side.
MaxCalls == 2

\* The slug batch_download_videos gives a URL: the hash of the URL and the
\* second in which the call is submitted.
Slug(url, second) == <<"vid", url, second>>

\* int(time.time()) at each submit, counted from the first: the clock does
\* not go back, and each submit may fall in a later second.
SubmitSeconds(n) ==
    {ts \in [1..n -> 0..(MaxCalls - 1)] :
        /\ n > 0 => ts[1] = 0
        /\ \A i \in 1..(n - 1) : ts[i] <= ts[i + 1] /\ ts[i + 1] <= ts[i] + 1}

\* A file of temp_dir: name slug + suffix + "." + ext.
DirFile(slug, suffix, ext) == [slug |-> slug, suffix |-> suffix, ext |-> ext]

NoFile == DirFile(<<>>, "", "")

\* temp_dir before the calls: empty, or holding an mp4 from earlier.
InitDirs == {{}, {DirFile(<<"old">>, "", "mp4")}}

\* How ydl.download ends: it writes the file with one of these extensions
\* and returns 0, returns another code, or raises.
YdlOutcomes == {"mp4", "webm", "mkv", "retcode", "raises"}

\* slug in filename and filename.endswith("." + ext)
Matches(f, slug, ext) == f.slug = slug /\ f.ext = ext

\* find_downloaded_file: the files it may return, in the order of its three
\* rules; os.listdir's order decides among the files of one rule.
find_downloaded_file(directory, slug, ext) ==
    IF DirFile(slug, "", ext) \in directory
    THEN {DirFile(slug, "", ext)}
    ELSE IF \E f \in directory : Matches(f, slug, ext)
    THEN {f \in directory : Matches(f, slug, ext)}
    ELSE {f \in directory : f.ext = ext}

\* What a download_video call has come to.
Pending == [kind |-> "none", path |-> NoFile, error |-> ""]
Returned(f) == [kind |-> "returned", path |-> f, error |-> ""]
RaisedDownloadError(msg) == [kind |-> "raised", path |-> NoFile, error |-> msg]

\* The body of the as_completed loop of batch_download_videos: the result
\* appended for a future that returned a path, or that raised.
\* Variant: the except branch does not record the URL.
BatchResult_NoUrl(url, outcome) ==
    IF outcome.kind = "returned"
    THEN [status |-> STATUS_SUCCESS, url |-> url, path |-> outcome.path,
          message |-> ""]
    ELSE [status |-> STATUS_ERROR, url |-> "", path |-> NoFile,
          message |-> outcome.error]

BatchResult(url, outcome) ==
    IF outcome.kind = "returned"
    THEN [status |-> STATUS_SUCCESS, url |-> url, path |-> outcome.path,
          message |-> ""]
    ELSE [status |-> STATUS_ERROR, url |-> url, path |-> NoFile,
          message |-> outcome.error]

\* States in which download_video has not been called.
DownloadIdle ==
    /\ dvDir = {}
    /\ dvCall = <<>>
    /\ batchPending = {}
    /\ batchResults = <<>>

\* States in which upload_single_file and the strategies have not run; the
\* pipeline's runs leave them there.
UploadIdle ==
    /\ task = [cloud_storage |-> LOCAL_SAVE_OPTION, cloud_folder_path |-> <<"">>,
               filename |-> FileName]
    /\ cred = "valid"
    /\ store = {}
    /\ upc = "idle"
    /\ upRun = 0
    /\ parent_id = ROOT
    /\ segs = <<>>
    /\ upResult = NoUploadResult
    /\ strategyOutcome = NoOutcome
    /\ strategyLog = <<>>
    /\ apiLog = <<>>
    /\ chainIds = <<>>

-----------------------------------------------------------------------------
\* The main window and the pre-flight worker

\* Number of clicks on the start button.
MaxStarts == 2

\* Number of edits of the form after the window has opened.
MaxEdits == 1

\* The combo box with no current item (a session file may select none).
NoSelection == ""

\* The items of the quality combo box (one stands for the five of
\* QUALITY_OPTIONS, which the window treats alike).
QUALITY_OPTIONS == {"Best quality"}

\* What the widgets of the form can hold: the URL text, the folder, and the
\* current item of the two combo boxes.
FormUrls == {<<>>, <<UrlAt(1)>>}
FormFolders == {"", "dir"}

\* What load_session_state can leave in the form: setCurrentIndex with an
\* index that is no item leaves a combo box without a current item.
SessionForms ==
    [urls : FormUrls, cloud : UPLOADER_STRATEGIES \cup {NoSelection},
     folder : FormFolders, quality : QUALITY_OPTIONS \cup {NoSelection}]

\* The widgets when the window opens.
WindowOpened ==
    [start_btn |-> TRUE, settings_btn |-> TRUE, cancel_btn |-> FALSE,
     progress_bar |-> FALSE, bar_value |-> 0, status |-> "ready", flag |-> FALSE]

\* _reset_ui_to_idle.  Variant: the start button is left as it is.
reset_ui_to_idle_KeepsStart(u) ==
    [u EXCEPT !.settings_btn = TRUE, !.cancel_btn = FALSE,
              !.progress_bar = FALSE, !.status = "ready"]

reset_ui_to_idle(u) ==
    [u EXCEPT !.start_btn = TRUE, !.settings_btn = TRUE, !.cancel_btn = FALSE,
              !.progress_bar = FALSE, !.status = "ready"]

\* show_message(title, text, level): the text is shown as given.
Message(title, text, level) == [title |-> title, text |-> text, level |-> level]

\* Signals on their way to the window's slots.  A message is the sequence
\* of the pieces of its text.
PreFlightFinished(ok, message) ==
    [sig |-> "pre_flight_finished", ok |-> ok, message |-> message,
     was_cancelled |-> FALSE]

WorkerFinished(c) ==
    [sig |-> "finished", ok |-> TRUE, message |-> <<>>, was_cancelled |-> c]

WorkerError(message) ==
    [sig |-> "error", ok |-> FALSE, message |-> message, was_cancelled |-> FALSE]

WorkerProgress(percent, message) ==
    [sig |-> "progress", percent |-> percent, message |-> message]

\* int(5 + (i / (total * 2)) * 95), the percentage of download i + 1
DownloadPercent(i, total) == 5 + (i * 95) \div (total * 2)

\* int(5 + ((total + uploaded_count) / (total * 2)) * 95)
UploadPercent(uploaded, total) == 5 + ((total + uploaded) * 95) \div (total * 2)

\* is_ffmpeg_installed: the binary is there, or not, or the check raises.
FfmpegOutcomes == {"installed", "missing", "raises"}

\* How the selected strategy's check_connection ends.
NoCheck == [kind |-> "none", ok |-> FALSE, message |-> <<>>]

CheckReturns(ok, message) == [kind |-> "returns", ok |-> ok, message |-> message]

\* What the file system holds at a path: nothing, a file or a directory,
\* writable or not (Path.exists, Path.is_dir, os.access(path, os.W_OK)), and
\* whether the path can be looked at at all: Path.exists gives False for a
\* missing path and lets every other OSError of stat through, as for a name
\* longer than the file system allows; nothing exists at such a path and
\* os.access gives False for it.
PathStates ==
    {f \in [exists : BOOLEAN, is_dir : BOOLEAN, writable : BOOLEAN,
            stat : {"ok"}] :
        f.is_dir \/ f.writable => f.exists}
    \cup {[exists |-> FALSE, is_dir |-> FALSE, writable |-> FALSE,
            stat |-> "raises"]}

\* The state of a path that check_connection does not look at.
NotLookedAt ==
    [exists |-> FALSE, is_dir |-> FALSE, writable |-> FALSE, stat |-> "ok"]

\* The OSError of stat on the path.
StatError(path) ==
    [class |-> "OSError", args |-> <<"36", "File name too long", path>>]

\* The AuthError of get_yandex_token with no token configured.
YandexAuthError == [class |-> "AuthError", args |-> <<"no Yandex token">>]

CheckRaises(e) == [kind |-> "raises", ok |-> FALSE, message |-> ExceptionStr(e)]

\* LocalSaveStrategy.check_connection: four tests with an early return
\* each, and no handler around path.exists().
LocalCheckConnection(path, fs) ==
    IF path = "" THEN CheckReturns(FALSE, <<"no path for the local save">>)
    ELSE IF fs.stat = "raises" THEN CheckRaises(StatError(path))
    ELSE IF ~fs.exists THEN CheckReturns(FALSE, <<"the path does not exist", path>>)
    ELSE IF ~fs.is_dir THEN CheckReturns(FALSE, <<"the path is not a directory", path>>)
    ELSE IF ~fs.writable THEN CheckReturns(FALSE, <<"no write permission", path>>)
    ELSE CheckReturns(TRUE, <<"">>)

\* check_connection(path=path) of the three strategies: the ways it can end.
\* The Yandex token getter raises when no token is configured, and nothing
\* in that method catches it; the Drive method catches every exception; the
\* local one looks at the path only, and raises when the path cannot be
\* looked at.
check_connection(strategy, path, fs) ==
    CASE strategy = "YandexDiskUploaderStrategy" ->
            {CheckReturns(TRUE, <<"">>),
             CheckReturns(FALSE, <<"the Yandex.Disk token is invalid">>),
             CheckReturns(FALSE, <<"network or API error">>),
             CheckRaises(YandexAuthError)}
      [] strategy = "GoogleDriveUploaderStrategy" ->
            {CheckReturns(TRUE, <<"">>),
             CheckReturns(FALSE, <<"Google Drive API or authentication error">>)}
      [] strategy = "LocalSaveStrategy" -> {LocalCheckConnection(path, fs)}

\* run()'s except branch: the text names the exception.
CriticalError(e) == <<"critical error during the check">> \o e

\* What is emitted once check_connection has ended: the pair it returned,
\* or the failure run() reports when it raised.
\* Variant: a returned failure is reported as success.
CheckEmits_AlwaysOk(check) ==
    IF check.kind = "returns"
    THEN PreFlightFinished(TRUE, check.message)
    ELSE PreFlightFinished(FALSE, CriticalError(check.message))

CheckEmits(check) ==
    IF check.kind = "returns"
    THEN PreFlightFinished(check.ok, check.message)
    ELSE PreFlightFinished(FALSE, CriticalError(check.message))

\* No PreFlightCheckWorker and no DownloadUploadWorker has been created.
NoPreFlight ==
    [pc |-> "none", cloud |-> NoSelection, path |-> "", ffmpeg |-> "none",
     fs |-> NotLookedAt, check |-> NoCheck, calls |-> <<>>, emitted |-> <<>>]

NoWorker ==
    [state |-> "none", pos |-> "none", urls |-> <<>>, cloud |-> NoSelection,
     folder |-> ""]

\* States in which the window has not been opened.
GuiIdle ==
    /\ form = [urls |-> <<>>, cloud |-> LOCAL_SAVE_OPTION, folder |-> "",
               quality |-> CHOOSE q \in QUALITY_OPTIONS : TRUE]
    /\ ui = WindowOpened
    /\ pre = NoPreFlight
    /\ pw = NoWorker
    /\ guiQueue = <<>>
    /\ starts = 0
    /\ shown = <<>>
    /\ workers = <<>>
    /\ modal = "none"
    /\ cleaning = 0
    /\ edits = 0

-----------------------------------------------------------------------------
\* process_single_video (main.py) and the calls it makes

\* Number of process_single_video calls.
MaxVideos == 2

\* The arguments: "" stands for a key that is absent or empty.
VideoArgs ==
    {[video_url |-> u, cloud_storage |-> c] :
        u \in {"", "url"},
        c \in {"", "Yandex.Disk", "Google Drive", UnregisteredStorage}}

PsvReturned(status, message) ==
    [kind |-> "returned", status |-> status, message |-> message]

PsvRaised(exc) == [kind |-> "raised", status |-> "none", message |-> exc]

\* validate_args: the first required key that is absent or empty.
validate_args(args) ==
    IF args.video_url = "" THEN "video_url"
    ELSE IF args.cloud_storage = "" THEN "cloud_storage"
    ELSE "ok"

\* A call that has not come to a result.
PsvPending == [kind |-> "none", status |-> "none", message |-> <<>>]

\* The upload function process_single_video calls for the storage.
PsvUploadFunction(args) ==
    IF args.cloud_storage = "Yandex.Disk"
    THEN "upload_to_yandex_disk" ELSE "upload_to_google_drive"

\* A process_single_video call that has been submitted and not started.
PsvSubmitted(args) ==
    [args |-> args, pc |-> "start", ops |-> <<>>, created |-> FALSE,
     removed |-> FALSE, result |-> PsvPending, outcome |-> PsvPending]

\* The futures as_completed has not yielded, the results appended, and
\* whether future.result() raised.
PsvBatch(n) == [pending |-> 1..n, results |-> <<>>, raised |-> FALSE]

PsvIdle == psvCalls = <<>> /\ psvDirs = {} /\ psvBatch = PsvBatch(0)


-----------------------------------------------------------------------------
\* The credential getters of auth.py

\* Number of calls of the two getters together.
MaxAuthCalls == 3

\* What YANDEX_DISK_TOKEN can be: not set (or empty), or one of two tokens.
ConfigTokens == {"None", "token1", "token2"}

\* get_yandex_token with the cache and the configuration as they are: the
\* cached token without a look at the configuration, or the configured
\* token, which is cached, or AuthError.
\* Variant: the configuration is read on every call.
get_yandex_token_NoCache(cache, cfg) ==
    IF cfg = "None"
    THEN [fn |-> "get_yandex_token", kind |-> "raised", value |-> "AuthError",
          steps |-> <<"get_config">>, cache |-> cache]
    ELSE [fn |-> "get_yandex_token", kind |-> "returned", value |-> cfg,
          steps |-> <<"get_config">>, cache |-> cfg]

get_yandex_token(cache, cfg) ==
    IF cache # "None"
    THEN [fn |-> "get_yandex_token", kind |-> "returned", value |-> cache,
          steps |-> <<>>, cache |-> cache]
    ELSE IF cfg = "None"
    THEN [fn |-> "get_yandex_token", kind |-> "raised", value |-> "AuthError",
          steps |-> <<"get_config">>, cache |-> cache]
    ELSE [fn |-> "get_yandex_token", kind |-> "returned", value |-> cfg,
          steps |-> <<"get_config">>, cache |-> cfg]

\* Google credentials: where they came from and whether they are valid,
\* expired with a refresh token, or expired without one.
CredsStates == {"valid", "expired", "expired_no_refresh"}
Creds(src, state) == [src |-> src, state |-> state]
NoCreds == Creds("None", "None")

\* token.json: absent, unreadable, or holding credentials in one of the
\* three states.
TokenFiles == {"absent", "corrupt"} \cup CredsStates

\* _load_creds_from_token_file
load_creds_from_token_file(file) ==
    IF file \in CredsStates THEN Creds("token.json", file) ELSE NoCreds

\* How os.remove(token_path) in _refresh_creds ends, and how
\* _run_oauth_flow goes: the flow gives credentials and they are written to
\* token.json; the flow raises, or the file cannot be opened for writing;
\* the file is opened, and so emptied, and the write raises.
RemoveOutcomes == {"removed", "raises"}
OAuthOutcomes == {"creds", "fails", "write_fails"}

\* get_google_drive_credentials with the cache, credentials.json and
\* token.json as they are; refresh, remove and oauth say how creds.refresh,
\* os.remove and _run_oauth_flow would end.  The steps tell what the call
\* did, in order.  _refresh_creds removes token.json inside its except
\* branch, so that an exception of os.remove leaves the function and the
\* caller; _run_oauth_flow catches every exception, that of the write
\* included, and gives None, for which the caller raises AuthError.
get_google_drive_credentials(cache, env, refresh, remove, oauth) ==
    LET creds == load_creds_from_token_file(env.token_file)
        Call(kind, error, value, steps, c, file) ==
            [fn |-> "get_google_drive_credentials", kind |-> kind,
             error |-> error, value |-> value, steps |-> steps, cache |-> c,
             token_file |-> file]
        Flow(steps, file) ==
            IF oauth = "creds"
            THEN Call("returned", "None", Creds("oauth", "valid"),
                      Append(steps, "oauth"), Creds("oauth", "valid"), "valid")
            ELSE Call("raised", "AuthError", NoCreds, Append(steps, "oauth"),
                      cache, IF oauth = "write_fails" THEN "corrupt" ELSE file)
    IN IF cache.state = "valid"
       THEN Call("returned", "None", cache, <<>>, cache, env.token_file)
       ELSE IF ~env.creds_file
       THEN Call("raised", "AuthError", NoCreds, <<>>, cache, env.token_file)
       ELSE IF creds.state = "valid"
       THEN Call("returned", "None", creds, <<"load">>, creds, env.token_file)
       ELSE IF creds.state = "expired" /\ refresh = "ok"
       THEN Call("returned", "None", Creds("token.json", "valid"),
                 <<"load", "refresh">>, Creds("token.json", "valid"),
                 env.token_file)
       ELSE IF creds.state = "expired" /\ remove = "raises"
       THEN Call("raised", "OSError", NoCreds,
                 <<"load", "refresh", "remove_raises">>, cache, env.token_file)
       ELSE IF creds.state = "expired"
       THEN Flow(<<"load", "refresh", "remove">>, "absent")
       ELSE Flow(<<"load">>, env.token_file)

\* States in which no getter has been called.
AuthIdle ==
    /\ yCfg = "None"
    /\ yCache = "None"
    /\ gEnv = [creds_file |-> FALSE, token_file |-> "absent"]
    /\ gCache = NoCreds
    /\ authCalls = <<>>

-----------------------------------------------------------------------------
\* save_specific_settings_to_env of config.py.  Text is a sequence of
\* characters and a file is its text, line breaks included, so that reading
\* and writing are computed character by character as the code does.

\* Number of lines of the .env file before the first call.
MaxLines == 2

\* Number of calls.
MaxSaves == 2

\* str.strip(chars): text without the leading and trailing characters that
\* are in chars.
RECURSIVE lstrip(_, _)
lstrip(text, chars) ==
    IF text # <<>> /\ Head(text) \in chars
    THEN lstrip(Tail(text), chars)
    ELSE text

RECURSIVE rstrip(_, _)
rstrip(text, chars) ==
    IF text # <<>> /\ text[Len(text)] \in chars
    THEN rstrip(SubSeq(text, 1, Len(text) - 1), chars)
    ELSE text

strip(text, chars) == rstrip(lstrip(text, chars), chars)

\* str.strip() without argument removes every character for which
\* str.isspace() holds.  A character that has no escape in a string here is
\* named by its code point: "U+000B" is the vertical tab.
Whitespace ==
    {"\t", "\n", "U+000B", "\f", "\r", "U+001C", "U+001D", "U+001E", "U+001F",
     " ", "U+0085", "U+00A0", "U+1680", "U+2000", "U+2001", "U+2002", "U+2003",
     "U+2004", "U+2005", "U+2006", "U+2007", "U+2008", "U+2009", "U+200A",
     "U+2028", "U+2029", "U+202F", "U+205F", "U+3000"}
Quotes == {"\"", "'"}

\* The position of the first "=" of a text, 0 when it has none.
FirstEquals(text) ==
    IF \E i \in 1..Len(text) : text[i] = "="
    THEN CHOOSE i \in 1..Len(text) :
            /\ text[i] = "="
            /\ \A j \in 1..(i - 1) : text[j] # "="
    ELSE 0

\* env_vars[key] = value on a dictionary that keeps the order of insertion:
\* a key already there keeps its place, a new one goes to the end.
\* Variant: the entry is always added at the end.
SetVar_Append(env_vars, key, value) ==
    Append(env_vars, [key |-> key, value |-> value])

SetVar(env_vars, key, value) ==
    IF \E i \in 1..Len(env_vars) : env_vars[i].key = key
    THEN [i \in 1..Len(env_vars) |->
            IF env_vars[i].key = key
            THEN [key |-> key, value |-> value]
            ELSE env_vars[i]]
    ELSE Append(env_vars, [key |-> key, value |-> value])

\* The loop over the lines of the file: blank lines, comments and lines
\* without "=" are skipped, the others split at the first "=".
RECURSIVE ReadEnvLines(_, _)
ReadEnvLines(lines, env_vars) ==
    IF lines = <<>> THEN env_vars
    ELSE LET line == strip(Head(lines), Whitespace)
             eq == FirstEquals(line)
         IN IF line = <<>> \/ Head(line) = "#" \/ eq = 0
            THEN ReadEnvLines(Tail(lines), env_vars)
            ELSE ReadEnvLines(Tail(lines),
                    SetVar(env_vars,
                           strip(SubSeq(line, 1, eq - 1), Whitespace),
                           strip(SubSeq(line, eq + 1, Len(line)), Whitespace)))

\* open(env_path, "r") reads with universal newlines: a carriage return,
\* alone or before a line feed, reaches the program as one line feed.
RECURSIVE UniversalNewlines(_)
UniversalNewlines(text) ==
    IF text = <<>> THEN <<>>
    ELSE IF Head(text) = "\r"
    THEN <<"\n">> \o UniversalNewlines(
             IF Len(text) > 1 /\ text[2] = "\n" THEN Tail(Tail(text))
             ELSE Tail(text))
    ELSE <<Head(text)>> \o UniversalNewlines(Tail(text))

\* for line in f: the text read is cut after every line feed.
RECURSIVE SplitLines(_, _)
SplitLines(text, line) ==
    IF text = <<>> THEN (IF line = <<>> THEN <<>> ELSE <<line>>)
    ELSE IF Head(text) = "\n"
    THEN <<Append(line, "\n")>> \o SplitLines(Tail(text), <<>>)
    ELSE SplitLines(Tail(text), Append(line, Head(text)))

\* "\n".join(lines)
RECURSIVE JoinLines(_)
JoinLines(lines) ==
    IF lines = <<>> THEN <<>>
    ELSE IF Len(lines) = 1 THEN lines[1]
    ELSE lines[1] \o <<"\n">> \o JoinLines(Tail(lines))

\* What the function reads from the file, nothing when it does not exist.
ReadEnv(file) ==
    IF file.exists
    THEN ReadEnvLines(SplitLines(UniversalNewlines(file.text), <<>>), <<>>)
    ELSE <<>>

\* A setting's value is a text or Python's None.  str(value) of a text is
\* the text, str(None) is the word None.
PyNone == <<"None object">>
str(value) == IF value = PyNone THEN <<"N", "o", "n", "e">> ELSE value

\* The value written for a setting: its quotes removed, then quoted.
QuotedValue(value) == <<"\"">> \o strip(str(value), Quotes) \o <<"\"">>

\* os.linesep of the platform the program runs on (POSIX).
linesep == <<"\n">>

\* Path.write_text opens the file in text mode: every line feed of the
\* text is written as os.linesep.
RECURSIVE WriteNewlines(_)
WriteNewlines(text) ==
    IF text = <<>> THEN <<>>
    ELSE (IF Head(text) = "\n" THEN linesep ELSE <<Head(text)>>)
            \o WriteNewlines(Tail(text))

\* The file a call of Path.write_text(text) can leave.  It opens the file
\* for writing, which creates or empties it, then writes: when the open
\* fails the file is as before, when the write fails after it the file
\* holds a beginning of the text, and in both cases OSError is raised.
\* Every character in the files of this model is one byte, so a cut falls
\* between characters.
WriteTextOutcomes(file, text) ==
    LET bytes == WriteNewlines(text)
    IN {[kind |-> "returned", file |-> [exists |-> TRUE, text |-> bytes]],
        [kind |-> "raised", file |-> file]}
       \cup {[kind |-> "raised",
               file |-> [exists |-> TRUE, text |-> SubSeq(bytes, 1, n)]] :
                  n \in 0..(Len(bytes) - 1)}

\* The loop over settings_to_save.
RECURSIVE UpdateEnv(_, _)
UpdateEnv(env_vars, settings) ==
    IF settings = <<>> THEN env_vars
    ELSE UpdateEnv(SetVar(env_vars, Head(settings).key,
                          QuotedValue(Head(settings).value)),
                   Tail(settings))

\* The text save_specific_settings_to_env writes: key=value for every
\* variable, joined with line breaks.
save_specific_settings_to_env(file, settings) ==
    LET env_vars == UpdateEnv(ReadEnv(file), settings)
    IN JoinLines([i \in 1..Len(env_vars) |->
                      env_vars[i].key \o <<"=">> \o env_vars[i].value])

\* The text AppSettings.save_settings writes: key="value" for every setting
\* given, whatever the file held and whatever quotes the value has.
save_settings(new_settings) ==
    JoinLines([i \in 1..Len(new_settings) |->
                  new_settings[i].key \o <<"=", "\"">>
                      \o str(new_settings[i].value) \o <<"\"">>])

\* Lines a .env file may hold: blank, a comment after a vertical tab, a line
\* without "=", and assignments plain, with whitespace around key and
\* value, quoted with "=" in the value, and two of them with a carriage
\* return between.
EnvLines ==
    {<<>>,
     <<"U+000B", "#", "A", "=", "1">>,
     <<"x">>,
     <<"A", "=", "1">>,
     <<"\t", "A", " ", "=", " ", "2", "U+000B">>,
     <<"B", "=", "\"", "1", "=", "2", "\"">>,
     <<"D", "=", "1", "\r", "E", "=", "2">>}

\* Dictionaries that may be given, as key and value in iteration order;
\* a value may hold quotes, spaces, "=" and a line break.
Setting(key, value) == [key |-> <<key>>, value |-> value]
SettingsToSave ==
    {<<>>,
     <<Setting("A", <<"\"", "2", "'">>)>>,
     <<Setting("C", <<" ", "1", "\n", "D", "=", "2">>)>>,
     <<Setting("C", <<"3">>), Setting("A", <<"1">>)>>}

\* What SettingsDialog.get_settings_data can return: one entry for every
\* field of the dialog, in the order of the fields, the proxy None when its
\* field is empty.
DialogSettings ==
    {<<Setting("A", <<"x">>), Setting("P", PyNone)>>,
     <<Setting("A", <<>>), Setting("P", <<"p">>)>>}

NoEnvFile == [exists |-> FALSE, text |-> <<>>]

\* States in which the function has not been called and no .env exists.
EnvIdle ==
    /\ envFile = NoEnvFile
    /\ envSaves = <<>>

\* States in which none of the functions called on their own has run.
LibIdle == PsvIdle /\ AuthIdle /\ EnvIdle

-----------------------------------------------------------------------------
\* The state of a DownloadUploadWorker before run(), its inputs aside.
PipelineStart ==
    /\ cancellation_flag = FALSE
    /\ pcMain = "start"
    /\ mainExc = NoException
    /\ temp_dir_manager = "None"
    /\ target_dir = "unset"
    /\ dirs = [caller |-> "present", vdu |-> "absent"]
    /\ queue = <<>>
    /\ dlState = "none"
    /\ dlIndex = 0
    /\ dlResults = <<>>
    /\ dlThread = "idle"
    /\ dlFuture = "none"
    /\ ulState = "none"
    /\ ulResults = <<>>
    /\ uploaded_count = 0
    /\ ulCall = "idle"
    /\ ulCurrent = None
    /\ ulFuture = "none"
    /\ events = <<>>
    /\ putLog = <<>>
    /\ uploadCalls = <<>>
    /\ dlStarted = <<>>
    /\ cancelAt = [phase |-> "never", returned |-> 0]

Init ==
    /\ urls \in UrlLists
    /\ cloud \in UPLOADER_STRATEGIES
    /\ PipelineStart
    /\ UploadIdle
    /\ DownloadIdle
    /\ GuiIdle
    /\ LibIdle

-----------------------------------------------------------------------------
\* The caller's thread

\* Number of download_video calls that have returned so far.
DownloadsReturned == Len(dlStarted) - (IF dlThread = "running" THEN 1 ELSE 0)

\* When the flag is set: before main_pipeline has started, while a task is
\* not done, after both are done, or in a run that created no task.
CancelPhase ==
    IF pcMain = "start" THEN "beforeStart"
    ELSE IF dlState = "none" THEN "noTasks"
    ELSE IF AllDone THEN "afterDone"
    ELSE "running"

\* CancellationFlag.set(), from the GUI's cancel_processing.  The flag is read
\* by the run only; a set after the run has ended is left out.
SetCancellationFlag ==
    /\ ~cancellation_flag
    /\ pcMain \notin {"done", "failed"}
    /\ cancellation_flag' = TRUE
    /\ cancelAt' = [phase |-> CancelPhase, returned |-> DownloadsReturned]
    /\ UNCHANGED <<sideVars, urls, cloud, mainVars, queue, dlVars, ulVars, events, putLog>>

-----------------------------------------------------------------------------
\* run() and main_pipeline()

\* run() enters main_pipeline: the working directory is resolved (creating
\* the temporary directory may fail), progress 5 is emitted, the queue and
\* the tasks are created.  A failed creation leaves main_pipeline before its
\* try block, with the exception.
StartPipeline ==
    /\ pcMain = "start"
    /\ \E created \in BOOLEAN :
         IF is_local_save(cloud)
         THEN /\ created
              /\ temp_dir_manager' = "None"
              /\ target_dir' = "caller"
              /\ dirs' = dirs
              /\ events' = Append(events, ProgressEvent("main", 5))
              /\ dlState' = "created"
              /\ ulState' = "none"
              /\ mainExc' = mainExc
              /\ pcMain' = "loop"
         ELSE IF created
         THEN /\ temp_dir_manager' = "vdu"
              /\ target_dir' = "vdu"
              /\ dirs' = [dirs EXCEPT !.vdu = "present"]
              /\ events' = Append(events, ProgressEvent("main", 5))
              /\ dlState' = "created"
              /\ ulState' = "created"
              /\ mainExc' = mainExc
              /\ pcMain' = "loop"
         ELSE /\ mainExc' = MkdtempError
              /\ pcMain' = "shutdown"
              /\ UNCHANGED <<temp_dir_manager, target_dir, dirs, dlState,
                             ulState, events>>
    /\ UNCHANGED <<sideVars, urls, cloud, cancellation_flag, queue, dlIndex, dlResults,
                   dlThread, dlFuture, ulResults, uploaded_count, ulCall,
                   ulCurrent, ulFuture, putLog, uploadCalls, dlStarted, cancelAt>>

\* The while condition is false: results are collected and finished is
\* emitted with was_cancelled False; the finally block is still to run.
PollComplete ==
    /\ pcMain \in {"loop", "sleep"}
    /\ AllDone
    /\ dlState # "raised"
    /\ events' = Append(events,
                        FinishedEvent("main_pipeline", dlResults, UploaderResult, FALSE))
    /\ pcMain' = "finally"
    /\ UNCHANGED <<sideVars, urls, cloud, cancellation_flag, mainExc, temp_dir_manager,
                   target_dir, dirs, queue, dlVars, ulVars, putLog, cancelAt>>

\* t.cancel() on a task that awaits asyncio.to_thread: the call was handed
\* to the executor; while no thread has begun it, the cancellation takes it
\* back and it is never made; once a thread has begun it, it runs to its
\* end.
CancelCall(call) == IF call = "queued" THEN "idle" ELSE call

\* The flag is seen set while a task is not done: both tasks are cancelled
\* and main_pipeline waits for them in gather.  A cancelled task runs no
\* more of its code; a worker thread that has begun the call it was waiting
\* for keeps running, an upload awaited on the event loop is torn down with
\* the task.
PollCancel ==
    /\ pcMain \in {"loop", "sleep"}
    /\ ~AllDone
    /\ IsCancelRequested
    /\ dlState' = CancelTask(dlState)
    /\ ulState' = CancelTask(ulState)
    /\ dlFuture' = "none"
    /\ ulFuture' = "none"
    /\ dlThread' = CancelCall(dlThread)
    /\ ulCall' = IF cloud \in ThreadedStrategies THEN CancelCall(ulCall) ELSE "idle"
    /\ pcMain' = "gather"
    /\ UNCHANGED <<sideVars, urls, cloud, cancellation_flag, mainExc, temp_dir_manager,
                   target_dir, dirs, queue, dlIndex, dlResults, dlStarted,
                   ulResults, uploaded_count, ulCurrent, uploadCalls, events,
                   putLog, cancelAt>>

\* Neither: await asyncio.sleep(0.1).
PollSleep ==
    /\ pcMain = "loop"
    /\ ~AllDone
    /\ ~IsCancelRequested
    /\ pcMain' = "sleep"
    /\ UNCHANGED <<sideVars, urls, cloud, cancellation_flag, mainExc, temp_dir_manager,
                   target_dir, dirs, queue, dlVars, ulVars, events, putLog, cancelAt>>

\* gather returns and CancelledError is raised.
GatherDone ==
    /\ pcMain = "gather"
    /\ TaskDone(dlState)
    /\ ulState = "none" \/ TaskDone(ulState)
    /\ mainExc' = CancelledError
    /\ pcMain' = "finally"
    /\ UNCHANGED <<sideVars, urls, cloud, cancellation_flag, temp_dir_manager, target_dir,
                   dirs, queue, dlVars, ulVars, events, putLog, cancelAt>>

\* The finally block of main_pipeline, on whatever way the try block was
\* left.  An exception of cleanup() takes the place of the one the block
\* was entered with.
Finally ==
    /\ pcMain = "finally"
    /\ \E end \in FinallyCleanup(temp_dir_manager, dirs) :
         /\ dirs' = end.dirs
         /\ mainExc' = IF end.raised # NoException THEN end.raised ELSE mainExc
    /\ pcMain' = "shutdown"
    /\ UNCHANGED <<sideVars, urls, cloud, cancellation_flag, temp_dir_manager, target_dir,
                   queue, dlVars, ulVars, events, putLog, cancelAt>>

\* asyncio.run closes the loop, which joins the default executor's threads,
\* and run() handles what main_pipeline raised.
RunShutdown ==
    /\ pcMain = "shutdown"
    /\ dlThread # "running"
    /\ ulCall # "running"
    /\ events' = RunHandlers(events, mainExc)
    /\ pcMain' = IF mainExc.class \in {"none", "CancelledError"} THEN "done" ELSE "failed"
    /\ UNCHANGED <<sideVars, urls, cloud, cancellation_flag, mainExc, temp_dir_manager,
                   target_dir, dirs, queue, dlVars, ulVars, putLog, cancelAt>>

-----
\* downloader_task()

\* The head of the for loop at index i: with a URL left, emit the progress
\* of item i and hand download_video to the executor, where it waits for a
\* thread; with none left, put None on the queue and return the results.
\* Variant: the task returns without putting None.
DownloaderLoop_NoMarker(i, ev, q, plog) ==
    IF i < Total
    THEN /\ events' = Append(ev, ProgressEvent("downloader", DownloaderProgress(i, Total)))
         /\ dlIndex' = i
         /\ dlThread' = "queued"
         /\ dlStarted' = dlStarted
         /\ dlState' = "downloading"
         /\ queue' = q
         /\ putLog' = plog
    ELSE /\ events' = ev
         /\ dlIndex' = i
         /\ dlThread' = dlThread
         /\ dlStarted' = dlStarted
         /\ dlState' = "done"
         /\ queue' = q
         /\ putLog' = plog

DownloaderLoop(i, ev, q, plog) ==
    IF i < Total
    THEN /\ events' = Append(ev, ProgressEvent("downloader", DownloaderProgress(i, Total)))
         /\ dlIndex' = i
         /\ dlThread' = "queued"
         /\ dlStarted' = dlStarted
         /\ dlState' = "downloading"
         /\ queue' = q
         /\ putLog' = plog
    ELSE /\ events' = ev
         /\ dlIndex' = i
         /\ dlThread' = dlThread
         /\ dlStarted' = dlStarted
         /\ dlState' = "done"
         /\ queue' = QueuePut(q, None)
         /\ putLog' = Append(plog, None)

\* The task's first run.
DownloaderBegin ==
    /\ LoopFree
    /\ dlState = "created"
    /\ dlResults' = <<>>
    /\ dlFuture' = "none"
    /\ DownloaderLoop(0, events, queue, putLog)
    /\ UNCHANGED <<sideVars, urls, cloud, cancellation_flag, mainVars, ulVars, cancelAt>>

\* A thread of the executor begins the download_video call handed to it.
DownloadStarts ==
    /\ dlThread = "queued"
    /\ dlThread' = "running"
    /\ dlStarted' = Append(dlStarted, dlIndex + 1)
    /\ UNCHANGED <<sideVars, urls, cloud, cancellation_flag, mainVars, queue, dlState,
                   dlIndex, dlResults, dlFuture, ulVars, events, putLog, cancelAt>>

\* The directories once a download_video call has ended.  The call writes
\* its file into the working directory; when the finally block has removed
\* that directory under it, the call has failed there or has made the
\* directory again.
DownloadLeaves(d) ==
    IF target_dir = "vdu" /\ d.vdu = "removed"
    THEN {d, [d EXCEPT !.vdu = "present"]}
    ELSE {d}

\* The worker thread's download_video call returns.  The thread is not
\* interrupted by a cancellation: it returns also after its task was
\* cancelled, and then nobody takes the result.
DownloadReturns ==
    /\ dlThread = "running"
    /\ \E outcome \in DownloadOutcomes :
         dlFuture' = IF dlState = "downloading" THEN outcome ELSE dlFuture
    /\ dlThread' = "idle"
    /\ dirs' \in DownloadLeaves(dirs)
    /\ UNCHANGED <<sideVars, urls, cloud, cancellation_flag, pcMain, mainExc,
                   temp_dir_manager, target_dir, queue, dlState,
                   dlIndex, dlResults, dlStarted, ulVars, events, putLog, cancelAt>>

\* await asyncio.to_thread(...) and await upload_single_file(...): the task
\* goes on only when the awaited call has ended.
\* Variant: the task goes on without waiting.
AwaitedCallEnded_NoWait(future) == TRUE

AwaitedCallEnded(future) == future # "none"

\* The task resumes with the result: append it, put a success on the queue
\* or emit the error of a failure, and go round the loop.
DownloaderResume ==
    /\ LoopFree
    /\ dlState = "downloading"
    /\ AwaitedCallEnded(dlFuture)
    /\ dlFuture # "raises"
    /\ LET result == download_video(urls[dlIndex + 1], dlIndex + 1, dlFuture)
           enq == ShouldEnqueue(result)
       IN /\ dlResults' = AppendResult(dlResults, result)
          /\ dlFuture' = "none"
          /\ DownloaderLoop(dlIndex + 1,
                            IF enq THEN events
                            ELSE Append(events, ErrorEvent("downloader", dlIndex + 1)),
                            IF enq THEN QueuePut(queue, result) ELSE queue,
                            IF enq THEN Append(putLog, result) ELSE putLog)
    /\ UNCHANGED <<sideVars, urls, cloud, cancellation_flag, mainVars, ulVars, cancelAt>>

-----------------------------------------------------------------------------
\* uploader_task()

\* await queue.get() and what follows it up to the next suspension: with
\* the queue empty the task waits; None ends the task; a download result is
\* counted, its progress emitted and its task given to upload_single_file,
\* whose strategy awaits its network calls or hands _upload_sync to the
\* executor.
UploaderTake(results, ev, q) ==
    IF q = <<>>
    THEN /\ ulState' = "waiting"
         /\ events' = ev
         /\ queue' = q
         /\ UNCHANGED <<uploaded_count, ulCall, ulCurrent, uploadCalls>>
    ELSE IF QueueFront(q) = None
    THEN /\ ulState' = "done"
         /\ events' = ev
         /\ queue' = Tail(q)
         /\ UNCHANGED <<uploaded_count, ulCall, ulCurrent, uploadCalls>>
    ELSE /\ ulState' = "uploading"
         /\ uploaded_count' = uploaded_count + 1
         /\ events' = Append(ev, ProgressEvent("uploader",
                                   UploaderProgress(uploaded_count + 1, Total)))
         /\ ulCurrent' = QueueFront(q)
         /\ uploadCalls' = Append(uploadCalls, UploadTask(QueueFront(q)))
         /\ ulCall' = IF cloud \in ThreadedStrategies THEN "queued" ELSE "running"
         /\ queue' = Tail(q)

\* The task's first run.
UploaderBegin ==
    /\ LoopFree
    /\ ulState = "created"
    /\ ulResults' = <<>>
    /\ ulFuture' = "none"
    /\ UploaderTake(<<>>, events, queue)
    /\ UNCHANGED <<sideVars, urls, cloud, cancellation_flag, mainVars, dlVars, putLog, cancelAt>>

\* The waiting task is woken by a put.
UploaderWake ==
    /\ LoopFree
    /\ ulState = "waiting"
    /\ queue # <<>>
    /\ UploaderTake(ulResults, events, queue)
    /\ UNCHANGED <<sideVars, urls, cloud, cancellation_flag, mainVars, dlVars, ulResults,
                   ulFuture, putLog, cancelAt>>

\* A thread of the executor begins the _upload_sync call handed to it.
UploadStarts ==
    /\ ulCall = "queued"
    /\ ulCall' = "running"
    /\ UNCHANGED <<sideVars, urls, cloud, cancellation_flag, mainVars, queue, dlVars,
                   ulState, ulResults, uploaded_count, ulCurrent, ulFuture,
                   uploadCalls, events, putLog, cancelAt>>

\* The selected strategy's upload ends, by returning or by raising.
UploadReturns ==
    /\ ulCall = "running"
    /\ \E outcome \in StrategyOutcomes :
         ulFuture' = IF ulState = "uploading" THEN outcome ELSE ulFuture
    /\ ulCall' = "idle"
    /\ UNCHANGED <<sideVars, urls, cloud, cancellation_flag, mainVars, queue, dlVars,
                   ulState, ulResults, uploaded_count, ulCurrent, uploadCalls,
                   events, putLog, cancelAt>>

\* The task resumes with upload_single_file's result: append it, emit the
\* error of a failure, and take the next item.
UploaderResume ==
    /\ LoopFree
    /\ ulState = "uploading"
    /\ AwaitedCallEnded(ulFuture)
    /\ LET upload_result == upload_single_file(UploadTask(ulCurrent), ulFuture)
       IN /\ ulResults' = AppendResult(ulResults, upload_result)
          /\ ulFuture' = "none"
          /\ UploaderTake(ulResults',
                          IF UploadFailed(upload_result)
                          THEN Append(events, ErrorEvent("uploader", ulCurrent.path))
                          ELSE events,
                          queue)
    /\ UNCHANGED <<sideVars, urls, cloud, cancellation_flag, mainVars, dlVars, putLog, cancelAt>>

-----------------------------------------------------------------------------
Next ==
    \/ SetCancellationFlag
    \/ StartPipeline
    \/ PollComplete
    \/ PollCancel
    \/ PollSleep
    \/ GatherDone
    \/ Finally
    \/ RunShutdown
    \/ DownloaderBegin
    \/ DownloadStarts
    \/ DownloadReturns
    \/ DownloaderResume
    \/ UploaderBegin
    \/ UploaderWake
    \/ UploadStarts
    \/ UploadReturns
    \/ UploaderResume

Spec == Init /\ [][Next]_vars

\* The run when the thread runs it, the event loop runs every task that can
\* go on and every call handed to a thread or awaited is begun and returns.  Nothing
\* obliges the caller to set the flag.
Fairness ==
    /\ WF_vars(StartPipeline)
    /\ WF_vars(PollComplete)
    /\ WF_vars(PollCancel)
    /\ WF_vars(PollSleep)
    /\ WF_vars(GatherDone)
    /\ WF_vars(Finally)
    /\ WF_vars(RunShutdown)
    /\ WF_vars(DownloaderBegin)
    /\ WF_vars(DownloadStarts)
    /\ WF_vars(DownloadReturns)
    /\ WF_vars(DownloaderResume)
    /\ WF_vars(UploaderBegin)
    /\ WF_vars(UploaderWake)
    /\ WF_vars(UploadStarts)
    /\ WF_vars(UploadReturns)
    /\ WF_vars(UploaderResume)

SpecFair == Spec /\ Fairness

-----------------------------------------------------------------------------
\* The run with a download step that can raise

\* The worker thread's download_video call ends with an exception.
DownloadRaises ==
    /\ dlThread = "running"
    /\ dlFuture' = IF dlState = "downloading" THEN "raises" ELSE dlFuture
    /\ dlThread' = "idle"
    /\ dirs' \in DownloadLeaves(dirs)
    /\ UNCHANGED <<sideVars, urls, cloud, cancellation_flag, pcMain, mainExc,
                   temp_dir_manager, target_dir, queue, dlState,
                   dlIndex, dlResults, dlStarted, ulVars, events, putLog, cancelAt>>

\* The exception is raised at the await in downloader_task, which has no
\* handler: the task ends with it, nothing is appended or put.
DownloaderRaised ==
    /\ LoopFree
    /\ dlState = "downloading"
    /\ dlFuture = "raises"
    /\ dlState' = "raised"
    /\ dlFuture' = "none"
    /\ UNCHANGED <<sideVars, urls, cloud, cancellation_flag, mainVars, queue, dlIndex,
                   dlResults, dlThread, dlStarted, ulVars, events, putLog, cancelAt>>

\* The while condition is false with the downloader ended by an exception:
\* downloader.result() raises it; the finally block is still to run.
PollResultRaises ==
    /\ pcMain \in {"loop", "sleep"}
    /\ AllDone
    /\ dlState = "raised"
    /\ mainExc' = DownloadException
    /\ pcMain' = "finally"
    /\ UNCHANGED <<sideVars, urls, cloud, cancellation_flag, temp_dir_manager, target_dir,
                   dirs, queue, dlVars, ulVars, events, putLog, cancelAt>>

NextRaise ==
    \/ Next
    \/ DownloadRaises
    \/ DownloaderRaised
    \/ PollResultRaises

SpecRaise == Init /\ [][NextRaise]_vars

-----------------------------------------------------------------------------
\* upload_single_file and the strategies: actions

\* The pipeline has not run.
PipelineIdle ==
    /\ urls = <<>>
    /\ cloud = LOCAL_SAVE_OPTION
    /\ PipelineStart

InitUpload ==
    /\ PipelineIdle
    /\ DownloadIdle
    /\ GuiIdle
    /\ LibIdle
    /\ task \in Tasks
    /\ cred \in CredStates
    /\ store \in InitStores
    /\ upc = "idle"
    /\ upRun = 0
    /\ parent_id = ROOT
    /\ segs = <<>>
    /\ upResult = NoUploadResult
    /\ strategyOutcome = NoOutcome
    /\ strategyLog = <<>>
    /\ apiLog = <<>>
    /\ chainIds = <<>>

\* The strategy's upload ends and upload_single_file returns.
Finish(outcome) ==
    /\ strategyOutcome' = outcome
    /\ upResult' = UploadEnded(task, outcome)
    /\ upc' = "idle"

\* upload_single_file is called: the strategy is looked up; without one the
\* error result is returned at once, otherwise the class is instantiated
\* and its upload invoked.
UploadSingleFile ==
    /\ upc = "idle"
    /\ upRun < MaxRuns
    /\ upRun' = upRun + 1
    /\ IF task.cloud_storage \notin UPLOADER_STRATEGIES
       THEN /\ upResult' = StrategyNotFound(task)
            /\ strategyOutcome' = NoOutcome
            /\ upc' = "idle"
            /\ strategyLog' = strategyLog
       ELSE /\ upResult' = NoUploadResult
            /\ strategyOutcome' = NoOutcome
            /\ upc' = StrategyClassOf(task.cloud_storage)
            /\ strategyLog' = Append(strategyLog,
                   [run |-> upRun + 1,
                    strategy |-> StrategyClassOf(task.cloud_storage)])
    /\ UNCHANGED <<outsideUpload, task, cred, store, parent_id, segs, apiLog, chainIds>>

\* GoogleDriveUploaderStrategy._upload_sync up to the chain's loop: the
\* credentials are fetched and the chain starts at the root.
GdUploadSync ==
    /\ upc = "GoogleDriveUploaderStrategy"
    /\ LET creds == AuthGetter(cred)
       IN IF creds.raised
          THEN /\ Finish(Raises("AuthError", "credentials.json not found"))
               /\ UNCHANGED <<parent_id, segs>>
          ELSE IF creds.value = "None"
          THEN /\ Finish(Raises("UploadError", "no Google Drive credentials"))
               /\ UNCHANGED <<parent_id, segs>>
          ELSE /\ upc' = "chain"
               /\ parent_id' = ROOT
               /\ segs' = Strip(task.cloud_folder_path)
               /\ UNCHANGED <<upResult, strategyOutcome>>
    /\ UNCHANGED <<outsideUpload, task, cred, store, upRun, strategyLog, apiLog, chainIds>>

\* One round of _create_folders_chain's loop: an empty part is passed over,
\* any other is found or created under the current parent.
GdCreateFoldersChain ==
    /\ upc = "chain"
    /\ segs # <<>>
    /\ IF Head(segs) = ""
       THEN /\ segs' = Tail(segs)
            /\ UNCHANGED <<store, upc, parent_id, upResult, strategyOutcome, apiLog>>
       ELSE \E fl, fc \in Faults :
              LET r == find_or_create_folder(store, upRun, parent_id,
                                             Head(segs), fl, fc)
              IN /\ store' = r.store
                 /\ apiLog' = apiLog \o r.calls
                 /\ IF r.exc # ""
                    THEN /\ Finish(Raises(r.exc, r.msg))
                         /\ UNCHANGED <<parent_id, segs>>
                    ELSE /\ parent_id' = r.id
                         /\ segs' = Tail(segs)
                         /\ UNCHANGED <<upc, upResult, strategyOutcome>>
    /\ UNCHANGED <<outsideUpload, task, cred, upRun, strategyLog, chainIds>>

\* The chain returns the last parent and the file is created under it.
GdCreateFile ==
    /\ upc = "chain"
    /\ segs = <<>>
    /\ chainIds' = Append(chainIds, [run |-> upRun, id |-> parent_id])
    /\ \E f \in Faults :
         /\ apiLog' = Append(apiLog, ApiCall(upRun, "create_file", parent_id,
                                             task.filename, <<>>, f))
         /\ IF f = "ok"
            THEN /\ store' = CreateFile(store, parent_id, task.filename, upRun)
                 /\ Finish(Returns(StrategyResult(NewId(store))))
            ELSE /\ store' = store
                 /\ Finish(Raises(Wrapped(f), "Google Drive API error"))
    /\ UNCHANGED <<outsideUpload, task, cred, upRun, parent_id, segs, strategyLog>>

\* YandexDiskUploaderStrategy.upload up to the folder check: the token is
\* fetched and await disk.check_token() answers.
YdCheckToken ==
    /\ upc = "YandexDiskUploaderStrategy"
    /\ LET token == AuthGetter(cred)
       IN IF token.raised
          THEN /\ Finish(Raises("AuthError", "YANDEX_DISK_TOKEN not found"))
               /\ apiLog' = apiLog
          ELSE IF token.value = "None"
          THEN /\ Finish(Raises("UploadError", "token not found"))
               /\ apiLog' = apiLog
          ELSE \E f \in Faults :
                 /\ apiLog' = Append(apiLog, ApiCall(upRun, "check_token", ROOT,
                                                     "", <<>>, f))
                 /\ IF f # "ok"
                    THEN Finish(Raises(Wrapped(f), "Yandex.Disk API error"))
                    ELSE IF token.value = "invalid"
                    THEN Finish(Raises("UploadError", "token is invalid"))
                    ELSE /\ upc' = "folder"
                         /\ UNCHANGED <<upResult, strategyOutcome>>
    /\ UNCHANGED <<outsideUpload, task, cred, store, upRun, parent_id, segs,
                   strategyLog, chainIds>>

\* The destination folder: when a path is given, await disk.exists(path);
\* its answer decides whether mkdir is called.
YdExists ==
    /\ upc = "folder"
    /\ LET p == Strip(task.cloud_folder_path)
           existsCall(f) == ApiCall(upRun, "exists", ROOT, "", p, f)
       IN IF ~Truthy(task.cloud_folder_path)
          THEN /\ upc' = "upload"
               /\ UNCHANGED <<apiLog, upResult, strategyOutcome>>
          ELSE \E fe \in Faults :
                 /\ apiLog' = Append(apiLog, existsCall(fe))
                 /\ IF fe # "ok"
                    THEN Finish(Raises(Wrapped(fe), "Yandex.Disk API error"))
                    ELSE /\ upc' = IF Exists(store, p) THEN "upload" ELSE "mkdir"
                         /\ UNCHANGED <<upResult, strategyOutcome>>
    /\ UNCHANGED <<outsideUpload, task, cred, store, upRun, parent_id, segs,
                   strategyLog, chainIds>>

\* exists answered False: await disk.mkdir(path), one mkdir of the whole
\* path.
YdMkdir ==
    /\ upc = "mkdir"
    /\ LET p == Strip(task.cloud_folder_path)
           mkdirCall(f) == ApiCall(upRun, "mkdir", ROOT, "", p, f)
       IN \E fm \in Faults :
            /\ apiLog' = Append(apiLog, mkdirCall(fm))
            /\ IF fm = "ok" /\ MkdirPossible(store, p)
               THEN /\ store' = Mkdir(store, p)
                    /\ upc' = "upload"
                    /\ UNCHANGED <<upResult, strategyOutcome>>
               ELSE /\ store' = store
                    /\ Finish(Raises(IF fm = "ok" THEN "UploadError"
                                     ELSE Wrapped(fm),
                                     "Yandex.Disk API error"))
    /\ UNCHANGED <<outsideUpload, task, cred, upRun, parent_id, segs, strategyLog,
                   chainIds>>

\* await disk.upload(overwrite = True) to /path/filename.
YdUpload ==
    /\ upc = "upload"
    /\ LET p == Strip(task.cloud_folder_path)
           dest == Resolve(store, {ROOT}, NonEmpty(p))
           uploadCall(f) == ApiCall(upRun, "upload", ROOT, task.filename, p, f)
       IN \E fu \in Faults :
            /\ apiLog' = Append(apiLog, uploadCall(fu))
            /\ IF fu # "ok" \/ dest = {}
               THEN /\ store' = store
                    /\ Finish(Raises(IF fu = "ok" THEN "UploadError"
                                     ELSE Wrapped(fu),
                                     "Yandex.Disk API error"))
               ELSE /\ store' = PutFile(store, CHOOSE id \in dest : TRUE,
                                        task.filename, upRun)
                    /\ upc' = "link"
                    /\ UNCHANGED <<upResult, strategyOutcome>>
    /\ UNCHANGED <<outsideUpload, task, cred, upRun, parent_id, segs, strategyLog,
                   chainIds>>

\* The file is on the disk: await disk.get_download_link(remote_path), and
\* the result names the file just written.
YdGetDownloadLink ==
    /\ upc = "link"
    /\ LET p == Strip(task.cloud_folder_path)
           linkCall(f) ==
               ApiCall(upRun, "get_download_link", ROOT, task.filename, p, f)
       IN \E fl \in Faults :
            /\ apiLog' = Append(apiLog, linkCall(fl))
            /\ IF fl = "ok"
               THEN Finish(Returns(StrategyResult(MaxId(store))))
               ELSE Finish(Raises(Wrapped(fl), "Yandex.Disk API error"))
    /\ UNCHANGED <<outsideUpload, task, cred, store, upRun, parent_id, segs,
                   strategyLog, chainIds>>

\* LocalSaveStrategy.upload: the folders of the path are made, the file is
\* copied over whatever holds its name.  A call that fails leaves what it
\* had made or written until then.
LsUpload ==
    /\ upc = "LocalSaveStrategy"
    /\ LET made == MakeDirs(store, ROOT, NonEmpty(task.cloud_folder_path))
           mkdirCall(f) ==
               ApiCall(upRun, "makedirs", ROOT, "", task.cloud_folder_path, f)
           copyCall(f) == ApiCall(upRun, "copy2", made.id, task.filename,
                                  task.cloud_folder_path, f)
       IN \E fm, fc \in Faults :
            IF fm # "ok"
            THEN /\ apiLog' = Append(apiLog, mkdirCall(fm))
                 /\ store' \in MakeDirsFailed(store, ROOT,
                                   NonEmpty(task.cloud_folder_path))
                 /\ Finish(Raises(Wrapped(fm), "error copying file locally"))
            ELSE IF fc # "ok"
            THEN /\ apiLog' = apiLog \o <<mkdirCall(fm), copyCall(fc)>>
                 /\ store' \in CopyFailed(made.store, made.id, task.filename,
                                          upRun)
                 /\ Finish(Raises(Wrapped(fc), "error copying file locally"))
            ELSE /\ apiLog' = apiLog \o <<mkdirCall(fm), copyCall(fc)>>
                 /\ store' = PutFile(made.store, made.id, task.filename, upRun)
                 /\ Finish(Returns(StrategyResult(NewId(made.store))))
    /\ UNCHANGED <<outsideUpload, task, cred, upRun, parent_id, segs, strategyLog,
                   chainIds>>

NextUpload ==
    \/ UploadSingleFile
    \/ GdUploadSync
    \/ GdCreateFoldersChain
    \/ GdCreateFile
    \/ YdCheckToken
    \/ YdExists
    \/ YdMkdir
    \/ YdUpload
    \/ YdGetDownloadLink
    \/ LsUpload

SpecUpload == InitUpload /\ [][NextUpload]_vars

-----------------------------------------------------------------------------
\* download_video: actions

InitDownload ==
    /\ PipelineIdle
    /\ UploadIdle
    /\ GuiIdle
    /\ LibIdle
    /\ dvDir \in InitDirs
    /\ \E n \in 0..MaxCalls : \E us \in [1..n -> {UrlAt(1), UrlAt(2)}] :
       \E ts \in SubmitSeconds(n) :
         /\ dvCall = [i \in 1..n |->
                        [pc |-> "start", url |-> us[i],
                         slug |-> Slug(us[i], ts[i]),
                         ydl |-> "none", outcome |-> Pending]]
         /\ batchPending = 1..n
    /\ batchResults = <<>>

\* The try block: ydl.download writes the file and returns 0, or returns
\* another code, or raises; both failures leave as DownloadError.
YdlDownload(i) ==
    /\ dvCall[i].pc = "start"
    /\ \E o \in YdlOutcomes :
         IF o \in {"retcode", "raises"}
         THEN /\ dvCall' = [dvCall EXCEPT ![i].pc = "done", ![i].ydl = o,
                               ![i].outcome =
                                   RaisedDownloadError("could not download")]
              /\ dvDir' = dvDir
         ELSE /\ dvCall' = [dvCall EXCEPT ![i].pc = "find", ![i].ydl = o]
              /\ dvDir' = dvDir \cup {DirFile(dvCall[i].slug, "", o)}
    /\ UNCHANGED <<batchPending, batchResults, outsideDownload>>

\* After the try block: the file is looked for as mp4 and returned when
\* there is one.
FindDownloadedMp4(i) ==
    /\ dvCall[i].pc = "find"
    /\ LET found == find_downloaded_file(dvDir, dvCall[i].slug, "mp4")
       IN IF found = {}
          THEN dvCall' = [dvCall EXCEPT ![i].pc = "find_webm"]
          ELSE \E f \in found :
                 dvCall' = [dvCall EXCEPT ![i].pc = "done",
                              ![i].outcome = Returned(f)]
    /\ UNCHANGED <<dvDir, batchPending, batchResults, outsideDownload>>

\* No mp4: the directory is read again for a webm; the file is returned,
\* or DownloadError is raised when there is none.
FindDownloadedWebm(i) ==
    /\ dvCall[i].pc = "find_webm"
    /\ LET found == find_downloaded_file(dvDir, dvCall[i].slug, "webm")
       IN IF found = {}
          THEN dvCall' = [dvCall EXCEPT ![i].pc = "done",
                            ![i].outcome = RaisedDownloadError("file not found")]
          ELSE \E f \in found :
                 dvCall' = [dvCall EXCEPT ![i].pc = "done",
                              ![i].outcome = Returned(f)]
    /\ UNCHANGED <<dvDir, batchPending, batchResults, outsideDownload>>

\* as_completed yields a future that is done and the loop body appends its
\* result.
BatchCollect(i) ==
    /\ i \in batchPending
    /\ dvCall[i].pc = "done"
    /\ batchPending' = batchPending \ {i}
    /\ batchResults' = Append(batchResults,
                              BatchResult(dvCall[i].url, dvCall[i].outcome))
    /\ UNCHANGED <<dvDir, dvCall, outsideDownload>>

NextDownload ==
    \E i \in 1..Len(dvCall) :
        \/ YdlDownload(i)
        \/ FindDownloadedMp4(i)
        \/ FindDownloadedWebm(i)
        \/ BatchCollect(i)

SpecDownload == InitDownload /\ [][NextDownload]_vars

-----------------------------------------------------------------------------
\* The main window and the pre-flight worker: actions

InitGui ==
    /\ PipelineIdle
    /\ UploadIdle
    /\ DownloadIdle
    /\ LibIdle
    /\ form \in SessionForms
    /\ ui = WindowOpened
    /\ pre = NoPreFlight
    /\ pw = NoWorker
    /\ guiQueue = <<>>
    /\ starts = 0
    /\ shown = <<>>
    /\ workers = <<>>
    /\ modal = "none"
    /\ cleaning = 0
    /\ edits = 0

\* The user edits one widget of the form: the URL text, the folder, or
\* the current item of a combo box, which is then one of its items.  No
\* widget is ever disabled and none depends on another; an open message
\* box takes the input of the window.
EditForm ==
    /\ modal = "none"
    /\ \/ \E u \in FormUrls : form' = [form EXCEPT !.urls = u]
       \/ \E c \in UPLOADER_STRATEGIES : form' = [form EXCEPT !.cloud = c]
       \/ \E f \in FormFolders : form' = [form EXCEPT !.folder = f]
       \/ \E q \in QUALITY_OPTIONS : form' = [form EXCEPT !.quality = q]
    /\ form' # form
    /\ edits < MaxEdits
    /\ edits' = edits + 1
    /\ UNCHANGED <<outsideGui, ui, pre, pw, guiQueue, starts, shown, workers,
                   modal, cleaning>>

\* start_processing, on a click of the enabled start button.
StartProcessing ==
    /\ ui.start_btn
    /\ modal = "none"
    /\ starts < MaxStarts
    /\ starts' = starts + 1
    /\ IF form.urls = <<>>
       THEN /\ shown' = <<Message("Error", <<"enter at least one URL">>,
                                   "warning")>>
            /\ UNCHANGED <<ui, pre, workers>>
       ELSE /\ ui' = [ui EXCEPT !.start_btn = FALSE, !.settings_btn = FALSE,
                                !.status = "checking"]
            /\ pre' = [NoPreFlight EXCEPT !.pc = "queued", !.cloud = form.cloud,
                                          !.path = form.folder]
            /\ workers' = Append(workers, "PreFlightCheckWorker")
            /\ shown' = <<>>
    /\ UNCHANGED <<outsideGui, form, pw, guiQueue,
                   modal, cleaning, edits>>

\* The worker emits finished.
PreFlightEmit(p, signal) ==
    /\ pre' = [p EXCEPT !.pc = "done", !.emitted = Append(p.emitted, signal)]
    /\ guiQueue' = Append(guiQueue, signal)

\* PreFlightCheckWorker.run up to the call of check_connection: the ffmpeg
\* check, then the lookup of the strategy.
PreFlightRun ==
    /\ pre.pc = "queued"
    /\ \E f \in FfmpegOutcomes :
         LET p == [pre EXCEPT !.ffmpeg = f]
         IN IF f = "missing"
            THEN PreFlightEmit(p, PreFlightFinished(FALSE, <<"FFMPEG not found">>))
            ELSE IF f = "raises"
            THEN PreFlightEmit(p, PreFlightFinished(FALSE,
                                      CriticalError(<<"ffmpeg check failed">>)))
            ELSE IF pre.cloud \notin UPLOADER_STRATEGIES
            THEN PreFlightEmit(p, PreFlightFinished(FALSE,
                                      <<"no logic for", pre.cloud>>))
            ELSE /\ pre' = [p EXCEPT !.pc = "check",
                              !.calls = Append(p.calls,
                                  [strategy |-> StrategyClassOf(pre.cloud),
                                   path |-> pre.path])]
                 /\ guiQueue' = guiQueue
    /\ UNCHANGED <<outsideGui, form, ui, pw, starts, shown, workers,
                   modal, cleaning, edits>>

\* check_connection ends and its outcome is emitted.
PreFlightCheckConnection ==
    /\ pre.pc = "check"
    /\ \E fs \in IF pre.calls[1].strategy = "LocalSaveStrategy" /\ pre.path # ""
                  THEN PathStates ELSE {NotLookedAt} :
         \E c \in check_connection(pre.calls[1].strategy, pre.calls[1].path, fs) :
            PreFlightEmit([pre EXCEPT !.fs = fs, !.check = c], CheckEmits(c))
    /\ UNCHANGED <<outsideGui, form, ui, pw, starts, shown, workers,
                   modal, cleaning, edits>>

\* on_pre_flight_finished.  A failure is shown in a message box, and the
\* slot waits in the box's exec() until the user closes it: the signals
\* queued for the window are delivered meanwhile, the widgets take no input.
\* A success starts a DownloadUploadWorker on what the form holds now; the
\* worker's arguments are evaluated after the widgets are set, and the
\* lookup of the quality raises KeyError when the combo box has no current
\* item: the slot then ends with no worker created.  The worker of the run
\* before may still be in cleanup(); nothing more is heard of one that had
\* no temporary directory.
OnPreFlightFinished ==
    /\ guiQueue # <<>>
    /\ Head(guiQueue).sig = "pre_flight_finished"
    /\ guiQueue' = Tail(guiQueue)
    /\ IF ~Head(guiQueue).ok
       THEN /\ shown' = Append(shown, Message("Check failed",
                               Head(guiQueue).message, "critical"))
            /\ modal' = "check_failed"
            /\ UNCHANGED <<ui, pw, workers, cleaning>>
       ELSE /\ ui' = [ui EXCEPT !.status = "starting", !.cancel_btn = TRUE,
                                !.progress_bar = TRUE, !.bar_value = 0,
                                !.flag = FALSE]
            /\ IF form.quality \in QUALITY_OPTIONS
               THEN /\ pw' = [state |-> "running", pos |-> "setup",
                              urls |-> form.urls, cloud |-> form.cloud,
                              folder |-> form.folder]
                    /\ workers' = Append(workers, "DownloadUploadWorker")
                    /\ cleaning' = IF pw.pos = "cleanup" /\ ~is_local_save(pw.cloud)
                                   THEN cleaning + 1 ELSE cleaning
               ELSE UNCHANGED <<pw, workers, cleaning>>
            /\ UNCHANGED <<shown, modal>>
    /\ UNCHANGED <<outsideGui, form, pre, starts, edits>>

\* The user closes the box of the failed check: on_pre_flight_finished goes
\* on to _reset_ui_to_idle and returns.
OnPreFlightFinishedReset ==
    /\ modal = "check_failed"
    /\ modal' = "none"
    /\ ui' = reset_ui_to_idle(ui)
    /\ UNCHANGED <<outsideGui, form, pre, pw, guiQueue, starts, shown, workers,
                   cleaning, edits>>

\* cancel_processing, on a click of the enabled cancel button.
CancelProcessing ==
    /\ ui.cancel_btn
    /\ modal = "none"
    /\ ui' = [ui EXCEPT !.status = "cancelling", !.flag = TRUE,
                        !.cancel_btn = FALSE]
    /\ UNCHANGED <<outsideGui, form, pre, pw, guiQueue, starts, shown, workers,
                   modal, cleaning, edits>>

\* The worker emits a signal and goes on to the next position of run().
WorkerEmit(signal, pos) ==
    /\ guiQueue' = Append(guiQueue, signal)
    /\ pw' = [pw EXCEPT !.pos = pos]

\* The worker emits its last signal and run() returns.
WorkerLastEmit(signal) ==
    /\ guiQueue' = Append(guiQueue, signal)
    /\ pw' = [pw EXCEPT !.state = "ended", !.pos = "ended"]

\* main_pipeline up to the polling loop: the temporary directory is made
\* for a destination other than the local one, which can fail, and in that
\* case run() emits error alone; otherwise the working folder is reported.
WorkerSetup ==
    /\ pw.state = "running"
    /\ pw.pos = "setup"
    /\ \/ /\ ~is_local_save(pw.cloud)
          /\ WorkerLastEmit(WorkerError(<<"unexpected error in the worker">>))
       \/ WorkerEmit(WorkerProgress(5, "working folder"), "download")
    /\ UNCHANGED <<outsideGui, form, ui, pre, starts, shown, workers,
                   modal, cleaning, edits>>

\* downloader_task at the head of its loop: the progress of the item is
\* emitted and download_video handed to a thread; with no URL the marker
\* is put and nothing is emitted.
WorkerDownloadBegins ==
    /\ pw.state = "running"
    /\ pw.pos = "download"
    /\ IF pw.urls = <<>>
       THEN /\ pw' = [pw EXCEPT !.pos = "finish"]
            /\ guiQueue' = guiQueue
       ELSE WorkerEmit(WorkerProgress(DownloadPercent(0, Len(pw.urls)),
                                      "downloading"), "downloading")
    /\ UNCHANGED <<outsideGui, form, ui, pre, starts, shown, workers,
                   modal, cleaning, edits>>

\* download_video has ended.  A success result goes to the uploader, or
\* ends the run with the local destination; an error result is reported
\* with the error signal, and then the end marker is all the uploader has
\* to take; an exception ends the downloader task, and then run() emits
\* error alone with the local destination, and with another the uploader
\* is left waiting until the run is cancelled.
WorkerDownloadEnds ==
    /\ pw.state = "running"
    /\ pw.pos = "downloading"
    /\ \/ /\ pw' = [pw EXCEPT !.pos = IF is_local_save(pw.cloud)
                                      THEN "finish" ELSE "upload"]
          /\ guiQueue' = guiQueue
       \/ WorkerEmit(WorkerError(<<"download of an item failed">>),
                     IF is_local_save(pw.cloud) THEN "finish" ELSE "marker")
       \/ IF is_local_save(pw.cloud)
          THEN WorkerLastEmit(WorkerError(<<"unexpected error in the worker">>))
          ELSE /\ pw' = [pw EXCEPT !.pos = "waiting"]
               /\ guiQueue' = guiQueue
    /\ UNCHANGED <<outsideGui, form, ui, pre, starts, shown, workers,
                   modal, cleaning, edits>>

\* uploader_task takes the result from the queue, emits the progress of
\* the upload and awaits upload_single_file.
WorkerUploadBegins ==
    /\ pw.state = "running"
    /\ pw.pos = "upload"
    /\ WorkerEmit(WorkerProgress(UploadPercent(1, Len(pw.urls)), "uploading"),
                  "uploading")
    /\ UNCHANGED <<outsideGui, form, ui, pre, starts, shown, workers,
                   modal, cleaning, edits>>

\* upload_single_file has returned: an error result is reported with the
\* error signal.
WorkerUploadEnds ==
    /\ pw.state = "running"
    /\ pw.pos = "uploading"
    /\ \/ /\ pw' = [pw EXCEPT !.pos = "finish"]
          /\ guiQueue' = guiQueue
       \/ WorkerEmit(WorkerError(<<"upload of an item failed">>), "finish")
    /\ UNCHANGED <<outsideGui, form, ui, pre, starts, shown, workers,
                   modal, cleaning, edits>>

\* uploader_task is woken by the end marker that follows an error result,
\* one turn of the event loop after the downloader task ended, and ends.
WorkerUploaderTakesMarker ==
    /\ pw.state = "running"
    /\ pw.pos = "marker"
    /\ pw' = [pw EXCEPT !.pos = "finish"]
    /\ UNCHANGED <<outsideGui, form, ui, pre, guiQueue, starts, shown, workers,
                   modal, cleaning, edits>>

\* The polling loop sees the flag set while a task is not done: run()
\* emits finished with was_cancelled True; when the removal of the
\* temporary directory raises in the finally branch, that exception takes
\* the place of CancelledError and run() emits error alone.
WorkerCancelled ==
    /\ pw.state = "running"
    /\ pw.pos \in {"download", "downloading", "upload", "uploading", "waiting",
                   "marker"}
    /\ ui.flag
    /\ \/ WorkerLastEmit(WorkerFinished(TRUE))
       \/ /\ ~is_local_save(pw.cloud)
          /\ WorkerLastEmit(WorkerError(<<"unexpected error in the worker">>))
    /\ UNCHANGED <<outsideGui, form, ui, pre, starts, shown, workers,
                   modal, cleaning, edits>>

\* The polling loop sees both tasks done: finished, was_cancelled False, is
\* emitted from main_pipeline, and the worker thread goes on to the finally
\* block.
WorkerEnds ==
    /\ pw.state = "running"
    /\ pw.pos = "finish"
    /\ WorkerEmit(WorkerFinished(FALSE), "cleanup")
    /\ UNCHANGED <<outsideGui, form, ui, pre, starts, shown, workers,
                   modal, cleaning, edits>>

\* How the thread of a worker that has emitted finished leaves run(): the
\* finally block removes the temporary directory and run() returns, or
\* cleanup() raises and run() emits error; without a temporary directory
\* there is nothing to remove.
CleanupSignals(c) ==
    IF is_local_save(c)
    THEN {<<>>}
    ELSE {<<>>, <<WorkerError(<<"unexpected error in the worker">>)>>}

\* The worker that has emitted finished leaves run().
WorkerCleanup ==
    /\ pw.state = "running"
    /\ pw.pos = "cleanup"
    /\ \E sigs \in CleanupSignals(pw.cloud) : guiQueue' = guiQueue \o sigs
    /\ pw' = [pw EXCEPT !.state = "ended", !.pos = "ended"]
    /\ UNCHANGED <<outsideGui, form, ui, pre, starts, shown, workers,
                   modal, cleaning, edits>>

\* A worker of an earlier run, which was still in cleanup() when the next
\* worker was created, leaves run().
EarlierWorkerCleanup ==
    /\ cleaning > 0
    /\ cleaning' = cleaning - 1
    /\ \E sigs \in CleanupSignals("Google Drive") : guiQueue' = guiQueue \o sigs
    /\ UNCHANGED <<outsideGui, form, ui, pre, pw, starts, shown, workers,
                   modal, edits>>

\* update_progress: the bar and the status line show what was emitted.
UpdateProgress ==
    /\ guiQueue # <<>>
    /\ Head(guiQueue).sig = "progress"
    /\ guiQueue' = Tail(guiQueue)
    /\ ui' = [ui EXCEPT !.bar_value = Head(guiQueue).percent,
                        !.status = Head(guiQueue).message]
    /\ UNCHANGED <<outsideGui, form, pre, pw, starts, shown, workers,
                   modal, cleaning, edits>>

\* on_finished: the window goes back to idle and the outcome is shown.
OnFinished ==
    /\ guiQueue # <<>>
    /\ Head(guiQueue).sig = "finished"
    /\ guiQueue' = Tail(guiQueue)
    /\ IF Head(guiQueue).was_cancelled
       THEN /\ ui' = [reset_ui_to_idle(ui) EXCEPT !.status = "cancelled"]
            /\ shown' = Append(shown, Message("Cancelled",
                               <<"cancelled by the user">>, "warning"))
       ELSE /\ ui' = [reset_ui_to_idle(ui) EXCEPT !.status = "done"]
            /\ shown' = Append(shown, Message("Finished", <<"report">>, "info"))
    /\ UNCHANGED <<outsideGui, form, pre, pw, starts, workers,
                   modal, cleaning, edits>>

\* on_error: the status line shows the error.
OnError ==
    /\ guiQueue # <<>>
    /\ Head(guiQueue).sig = "error"
    /\ guiQueue' = Tail(guiQueue)
    /\ ui' = [ui EXCEPT !.status = "error"]
    /\ UNCHANGED <<outsideGui, form, pre, pw, starts, shown, workers,
                   modal, cleaning, edits>>

NextGui ==
    \/ EditForm
    \/ StartProcessing
    \/ PreFlightRun
    \/ PreFlightCheckConnection
    \/ OnPreFlightFinished
    \/ OnPreFlightFinishedReset
    \/ CancelProcessing
    \/ WorkerSetup
    \/ WorkerDownloadBegins
    \/ WorkerDownloadEnds
    \/ WorkerUploadBegins
    \/ WorkerUploadEnds
    \/ WorkerUploaderTakesMarker
    \/ WorkerCancelled
    \/ WorkerEnds
    \/ WorkerCleanup
    \/ EarlierWorkerCleanup
    \/ UpdateProgress
    \/ OnFinished
    \/ OnError

SpecGui == InitGui /\ [][NextGui]_vars

-----------------------------------------------------------------------------
\* process_single_video: actions

InitMain ==
    /\ PipelineIdle
    /\ UploadIdle
    /\ DownloadIdle
    /\ GuiIdle
    /\ AuthIdle
    /\ EnvIdle
    /\ \E n \in 0..MaxVideos : \E videos \in [1..n -> VideoArgs] :
         /\ psvCalls = [k \in 1..n |-> PsvSubmitted(videos[k])]
         /\ psvBatch = PsvBatch(n)
    /\ psvDirs = {}

\* The try block or an except branch has produced the result; the finally
\* block is next.
PsvToFinally(k, ops, result) ==
    psvCalls' = [psvCalls EXCEPT ![k].pc = "finally", ![k].ops = ops,
                                 ![k].result = result]

\* os.makedirs(temp_dir, exist_ok=True), before the try block: an OSError
\* leaves the function.  The directory of the k-th call is named k (uuid4
\* never repeats).
PsvMakedirs(k) ==
    /\ psvCalls[k].pc = "start"
    /\ \E o \in {"ok", "raises"} :
         IF o = "raises"
         THEN /\ psvCalls' = [psvCalls EXCEPT ![k].pc = "done",
                                ![k].ops = Append(@, "makedirs"),
                                ![k].outcome = PsvRaised("OSError")]
              /\ psvDirs' = psvDirs
         ELSE /\ psvCalls' = [psvCalls EXCEPT ![k].pc = "try",
                                ![k].ops = Append(@, "makedirs"),
                                ![k].created = TRUE]
              /\ psvDirs' = psvDirs \cup {k}
    /\ UNCHANGED <<psvBatch, outsidePsv>>

\* The try block up to the upload: validate_args, then download_video,
\* which returns or raises, then the choice of the upload function.
PsvDownload(k) ==
    /\ psvCalls[k].pc = "try"
    /\ LET args == psvCalls[k].args
           ops == Append(psvCalls[k].ops, "download_video")
       IN IF validate_args(args) # "ok"
          THEN PsvToFinally(k, psvCalls[k].ops,
                   PsvReturned(STATUS_ERROR,
                               <<"parameter required", validate_args(args)>>))
          ELSE \E o \in {"returns", "raises"} :
                 IF o = "raises"
                 THEN PsvToFinally(k, ops,
                          PsvReturned(STATUS_ERROR, <<"unknown error", "download">>))
                 ELSE IF args.cloud_storage \notin {"Yandex.Disk", "Google Drive"}
                 THEN PsvToFinally(k, ops,
                          PsvReturned(STATUS_ERROR,
                                      <<"unknown storage", args.cloud_storage>>))
                 ELSE psvCalls' = [psvCalls EXCEPT ![k].pc = "upload",
                                                   ![k].ops = ops]
    /\ UNCHANGED <<psvDirs, psvBatch, outsidePsv>>

\* The upload function returns an identifier, returns nothing, or raises.
PsvUpload(k) ==
    /\ psvCalls[k].pc = "upload"
    /\ LET ops == Append(psvCalls[k].ops, PsvUploadFunction(psvCalls[k].args))
       IN \E o \in {"id", "none", "raises"} :
            PsvToFinally(k, ops,
                CASE o = "raises" ->
                       PsvReturned(STATUS_ERROR, <<"unknown error", "upload">>)
                  [] o = "none" ->
                       PsvReturned(STATUS_ERROR, <<"upload failed", "no cloud_id">>)
                  [] o = "id" ->
                       PsvReturned(STATUS_SUCCESS, <<"uploaded", "cloud_id">>))
    /\ UNCHANGED <<psvDirs, psvBatch, outsidePsv>>

\* The finally block: the directory exists and shutil.rmtree removes it,
\* after which the result is returned, or raises OSError, which leaves the
\* function in place of the result.
PsvRmtree(k) ==
    /\ psvCalls[k].pc = "finally"
    /\ \E o \in {"ok", "raises"} :
         IF o = "raises"
         THEN /\ psvCalls' = [psvCalls EXCEPT ![k].pc = "done",
                                ![k].ops = Append(@, "rmtree"),
                                ![k].outcome = PsvRaised("OSError")]
              /\ psvDirs' = psvDirs
         ELSE /\ psvCalls' = [psvCalls EXCEPT ![k].pc = "done",
                                ![k].ops = Append(@, "rmtree"),
                                ![k].removed = TRUE,
                                ![k].outcome = psvCalls[k].result]
              /\ psvDirs' = psvDirs \ {k}
    /\ UNCHANGED <<psvBatch, outsidePsv>>

\* batch_download_and_upload: as_completed yields a future that is done;
\* future.result() is appended, or raises what the call raised, and the
\* loop is left.
PsvBatchCollect(k) ==
    /\ k \in psvBatch.pending
    /\ ~psvBatch.raised
    /\ psvCalls[k].pc = "done"
    /\ psvBatch' =
         IF psvCalls[k].outcome.kind = "raised"
         THEN [psvBatch EXCEPT !.pending = @ \ {k}, !.raised = TRUE]
         ELSE [psvBatch EXCEPT !.pending = @ \ {k},
                               !.results = Append(@, psvCalls[k].outcome)]
    /\ UNCHANGED <<psvCalls, psvDirs, outsidePsv>>

NextMain ==
    \E k \in 1..Len(psvCalls) :
        \/ PsvMakedirs(k)
        \/ PsvDownload(k)
        \/ PsvUpload(k)
        \/ PsvRmtree(k)
        \/ PsvBatchCollect(k)

SpecMain == InitMain /\ [][NextMain]_vars

-----------------------------------------------------------------------------
\* The credential getters: actions

InitAuth ==
    /\ PipelineIdle
    /\ UploadIdle
    /\ DownloadIdle
    /\ GuiIdle
    /\ PsvIdle
    /\ EnvIdle
    /\ yCfg \in ConfigTokens
    /\ yCache = "None"
    /\ gEnv \in [creds_file : BOOLEAN, token_file : TokenFiles]
    /\ gCache = NoCreds
    /\ authCalls = <<>>

\* The settings are saved and the configuration reloaded with another token.
ChangeYandexToken ==
    /\ \E t \in ConfigTokens : t # yCfg /\ yCfg' = t
    /\ UNCHANGED <<outsideAuth, yCache, gEnv, gCache, authCalls>>

GetYandexToken ==
    /\ Len(authCalls) < MaxAuthCalls
    /\ LET call == get_yandex_token(yCache, yCfg)
       IN /\ yCache' = call.cache
          /\ authCalls' = Append(authCalls,
                [fn |-> call.fn, kind |-> call.kind, value |-> call.value,
                 steps |-> call.steps, before |-> yCache, cfg |-> yCfg,
                 after |-> call.cache])
    /\ UNCHANGED <<outsideAuth, yCfg, gEnv, gCache>>

\* Time passes: valid credentials, cached or in token.json, expire.
ExpireCreds ==
    /\ \E c \in {gCache.state, "expired", "expired_no_refresh"},
          f \in {gEnv.token_file, "expired", "expired_no_refresh"} :
         /\ c # gCache.state => gCache.state = "valid"
         /\ f # gEnv.token_file => gEnv.token_file = "valid"
         /\ c # gCache.state \/ f # gEnv.token_file
         /\ gCache' = [gCache EXCEPT !.state = c]
         /\ gEnv' = [gEnv EXCEPT !.token_file = f]
    /\ UNCHANGED <<outsideAuth, yCfg, yCache, authCalls>>

GetGoogleDriveCredentials ==
    /\ Len(authCalls) < MaxAuthCalls
    /\ \E refresh \in {"ok", "fails"}, remove \in RemoveOutcomes,
          oauth \in OAuthOutcomes :
         LET call == get_google_drive_credentials(gCache, gEnv, refresh,
                                                  remove, oauth)
         IN /\ gCache' = call.cache
            /\ gEnv' = [gEnv EXCEPT !.token_file = call.token_file]
            /\ authCalls' = Append(authCalls,
                  [fn |-> call.fn, kind |-> call.kind, error |-> call.error,
                   value |-> call.value,
                   steps |-> call.steps, before |-> gCache, cfg |-> gEnv,
                   after |-> [cache |-> call.cache,
                              token_file |-> call.token_file]])
    /\ UNCHANGED <<outsideAuth, yCfg, yCache>>

NextAuth ==
    \/ ChangeYandexToken
    \/ GetYandexToken
    \/ ExpireCreds
    \/ GetGoogleDriveCredentials

SpecAuth == InitAuth /\ [][NextAuth]_vars

-----------------------------------------------------------------------------
\* save_specific_settings_to_env: actions

InitEnv ==
    /\ PipelineIdle
    /\ UploadIdle
    /\ DownloadIdle
    /\ GuiIdle
    /\ PsvIdle
    /\ AuthIdle
    /\ \/ envFile = NoEnvFile
       \/ \E n \in 0..MaxLines : \E lines \in [1..n -> EnvLines] :
            envFile = [exists |-> TRUE, text |-> JoinLines(lines)]
    /\ envSaves = <<>>

\* A call of one of the two functions that write the file has ended.
EnvSaved(fn, settings, write) ==
    /\ envFile' = write.file
    /\ envSaves' = Append(envSaves,
           [fn |-> fn, settings |-> settings, before |-> envFile,
            kind |-> write.kind, after |-> write.file])

\* One call of save_specific_settings_to_env: the file is read and
\* rewritten, and the exception of a failed write goes to the caller.
SaveSettings ==
    /\ Len(envSaves) < MaxSaves
    /\ \E settings \in SettingsToSave :
         \E write \in WriteTextOutcomes(envFile,
                          save_specific_settings_to_env(envFile, settings)) :
            EnvSaved("save_specific_settings_to_env", settings, write)
    /\ UNCHANGED outsideEnv

\* One call of AppSettings.save_settings with the path of the .env file.
SaveAllSettings ==
    /\ Len(envSaves) < MaxSaves
    /\ \E settings \in SettingsToSave :
         \E write \in WriteTextOutcomes(envFile, save_settings(settings)) :
            EnvSaved("save_settings", settings, write)
    /\ UNCHANGED outsideEnv

\* open_settings, on a click of the enabled settings button: the dialog is
\* shown; when it is accepted its data are saved and the configuration is
\* loaded again, and a box tells how that went.
OpenSettings ==
    /\ ui.settings_btn
    /\ modal = "none"
    /\ Len(envSaves) < MaxSaves
    /\ \E settings \in DialogSettings, reload \in {"returns", "raises"} :
         \E write \in WriteTextOutcomes(envFile,
                          save_specific_settings_to_env(envFile, settings)) :
            /\ EnvSaved("save_specific_settings_to_env", settings, write)
            /\ shown' = Append(shown,
                   IF write.kind = "returned" /\ reload = "returns"
                   THEN Message("Success", <<"settings saved and applied">>,
                                "info")
                   ELSE Message("Error", <<"could not save the settings">>,
                                "critical"))
    /\ UNCHANGED <<pipeVars, upVars, dvVars, psvVars, authVars,
                   form, ui, pre, pw, guiQueue, starts, workers, modal,
                   cleaning, edits>>

NextEnv ==
    \/ SaveSettings
    \/ SaveAllSettings
    \/ OpenSettings

SpecEnv == InitEnv /\ [][NextEnv]_vars

-----------------------------------------------------------------------------
\* Properties

IsFinished(e) == e.type = "finished"
IsError(e) == e.type = "error"
IsSuccess(r) == r.status = STATUS_SUCCESS
IsFailure(r) == r.status = STATUS_ERROR

FinishedEvents == SelectSeq(events, IsFinished)
ErrorEvents == SelectSeq(events, IsError)

\* The finished events of runs that completed without cancellation.
CompletedEvents == {k \in 1..Len(events) :
                      events[k].type = "finished" /\ ~events[k].was_cancelled}

ErrorsOf(src, item) ==
    {k \in 1..Len(events) :
       events[k].type = "error" /\ events[k].src = src /\ events[k].item = item}

\* C1: when a run completes without cancellation, the download results of
\* its finished event are one result per input URL, in input order, whatever
\* the mix of successful and failed downloads.
C1_OneResultPerUrl ==
    \A k \in CompletedEvents :
        LET d == events[k].download_results
        IN /\ Len(d) = Len(urls)
           /\ \A i \in 1..Len(urls) : d[i].url = urls[i]

\* A completed run of three URLs, not all the same, with both a failed and
\* a successful download.
C1_Witness ==
    \E k \in CompletedEvents :
        LET d == events[k].download_results
        IN /\ Len(urls) = 3
           /\ urls[1] # urls[2]
           /\ \E i, j \in 1..Len(d) : IsSuccess(d[i]) /\ IsFailure(d[j])

\* C2: on a non-local backend the dispatcher is only ever called for the
\* file of a successful download, and when the run completes there are as
\* many upload results as successful download results.
C2_UploadsMatchSuccessfulDownloads ==
    /\ \A k \in 1..Len(uploadCalls) :
          /\ uploadCalls[k].file_path \in 1..Len(dlResults)
          /\ IsSuccess(dlResults[uploadCalls[k].file_path])
    /\ cloud # LOCAL_SAVE_OPTION =>
          \A k \in CompletedEvents :
              Len(events[k].upload_results)
                  = Len(SelectSeq(events[k].download_results, IsSuccess))

\* A completed non-local run with a failed download and an uploaded file.
C2_Witness ==
    /\ cloud # LOCAL_SAVE_OPTION
    /\ \E k \in CompletedEvents :
          /\ \E i \in 1..Len(events[k].download_results) :
                IsFailure(events[k].download_results[i])
          /\ Len(events[k].upload_results) >= 1

\* C3: a run that saves locally creates no uploader task, never calls the
\* dispatcher, finishes with an empty upload result list and emits no
\* progress of the uploader.
C3_LocalSaveHasNoUploads ==
    cloud = LOCAL_SAVE_OPTION =>
        /\ ulState = "none"
        /\ uploadCalls = <<>>
        /\ ulCall = "idle"
        /\ \A k \in 1..Len(events) :
              /\ events[k].src # "uploader"
              /\ events[k].type = "finished" => events[k].upload_results = <<>>

\* A completed local run in which two downloads succeeded.
C3_Witness ==
    /\ cloud = LOCAL_SAVE_OPTION
    /\ \E k \in CompletedEvents :
          Len(SelectSeq(events[k].download_results, IsSuccess)) >= 2

LastEvent == events[Len(events)]

\* finished([], [], True)
CancelledFinish(e) ==
    /\ e.type = "finished"
    /\ e.was_cancelled
    /\ e.download_results = <<>>
    /\ e.upload_results = <<>>

\* finished(download_results, upload_results, False) with a download result
\* for every URL and, on a non-local backend, an upload result for every
\* successful download.
FullFinish(e) ==
    /\ e.type = "finished"
    /\ ~e.was_cancelled
    /\ Len(e.download_results) = Len(urls)
    /\ cloud # LOCAL_SAVE_OPTION =>
          Len(e.upload_results) = Len(SelectSeq(e.download_results, IsSuccess))

\* run() has returned: after a normal return or the handling of
\* CancelledError ("done"), or after the handling of another exception
\* ("failed").
RunEnded == pcMain \in {"done", "failed"}

\* The events emitted by run() itself, that is by its two handlers.
IsRunEvent(e) == e.src = "run"
RunEvents == SelectSeq(events, IsRunEvent)

\* C4: a run whose flag was set before any download had returned (in
\* particular before main_pipeline started polling) ends with both tasks
\* cancelled and finished([], [], True), emitted by run(), as its outcome;
\* a run whose flag was set only after both tasks were done has emitted
\* finished with was_cancelled False and the full result lists.
\* Violated: the finally block of main_pipeline runs cleanup() unguarded;
\* when it raises, its exception takes the place of CancelledError and
\* run() emits error and no finished.
C4_EarlyFlagCancels ==
    /\ (/\ RunEnded
        /\ Len(urls) >= 1
        /\ cancelAt.phase \in {"beforeStart", "running"}
        /\ cancelAt.returned = 0)
          => /\ mainExc = CancelledError
             /\ events # <<>>
             /\ CancelledFinish(LastEvent)
             /\ RunEvents = <<LastEvent>>
    /\ (RunEnded /\ cancelAt.phase = "afterDone") =>
          \E k \in CompletedEvents : FullFinish(events[k])

\* C5: every run that has ended, on whatever path (completed, cancelled,
\* ended by an unexpected exception) and also when every item failed, has
\* emitted finished exactly once, as its last event.
\* Violated: run() handles an exception of main_pipeline by emitting error
\* only, and main_pipeline runs cleanup() after it has emitted finished, so
\* that a run ends with error as its only or as its last terminal signal.
C5_FinishedOnEveryPath ==
    RunEnded =>
        /\ Len(FinishedEvents) = 1
        /\ IsFinished(LastEvent)

\* C6: a failure never ends a task early and every failed item has exactly
\* one error event: the downloader returns only with a result for every
\* URL, the uploader only with a result for every queued file; the error
\* events of the downloader are those of the failed results, one each, and
\* likewise for the uploader; so a completed run has as many error events
\* as failed downloads plus failed uploads.
C6_FailuresDoNotAbort ==
    /\ dlState = "done" => Len(dlResults) = Len(urls)
    /\ ulState = "done" =>
          Len(ulResults) = Len(SelectSeq(dlResults, IsSuccess))
    /\ \A i \in 1..Len(dlResults) :
          Cardinality(ErrorsOf("downloader", i))
              = IF IsFailure(dlResults[i]) THEN 1 ELSE 0
    /\ \A k \in 1..Len(ulResults) :
          Cardinality(ErrorsOf("uploader", ulResults[k].filename))
              = IF IsFailure(ulResults[k]) THEN 1 ELSE 0
    /\ \A k \in CompletedEvents :
          Len(SelectSeq(SubSeq(events, 1, k), IsError))
              = Len(SelectSeq(events[k].download_results, IsFailure))
                + Len(SelectSeq(events[k].upload_results, IsFailure))

\* A completed run: the first download failed; the second succeeded and its
\* upload failed; the third succeeded and was uploaded.
C6_Witness ==
    \E k \in CompletedEvents :
        LET d == events[k].download_results
            u == events[k].upload_results
        IN /\ Len(d) = 3 /\ Len(u) = 2
           /\ IsFailure(d[1]) /\ IsSuccess(d[2]) /\ IsSuccess(d[3])
           /\ IsFailure(u[1]) /\ IsSuccess(u[2])

\* The files put on the queue so far, in order (the None marker left out).
IsFile(x) == x # None
PutFiles == SelectSeq(putLog, IsFile)

\* C7: files are put on the queue in input order and uploads are dispatched
\* in that order; the result of an upload is appended before the next upload
\* is dispatched, so the upload results are in input order too.
C7_UploadOrderIsInputOrder ==
    /\ \A k, l \in 1..Len(PutFiles) :
          k < l => PutFiles[k].path < PutFiles[l].path
    /\ \A k \in 1..Len(uploadCalls) :
          uploadCalls[k].file_path = PutFiles[k].path
    /\ Len(uploadCalls) - Len(ulResults) \in {0, 1}
    /\ \A k \in 1..Len(ulResults) :
          ulResults[k].filename = uploadCalls[k].file_path

\* The first and the third file were uploaded, in that order, the second
\* download having failed.
C7_Witness ==
    /\ Len(ulResults) = 2
    /\ ulResults[1].filename = 1
    /\ ulResults[2].filename = 3
    /\ IsFailure(dlResults[2])

\* C8: a file is put on the queue once, and only when its download has
\* returned success; the dispatcher is called at most once per file, and
\* only for a file that was put; the download in progress is neither queued
\* nor being uploaded.
C8_QueuedOnceAfterSuccess ==
    /\ \A k \in 1..Len(PutFiles) :
          /\ PutFiles[k].path \in 1..Len(dlResults)
          /\ dlResults[PutFiles[k].path] = PutFiles[k]
          /\ IsSuccess(PutFiles[k])
    /\ \A k, l \in 1..Len(PutFiles) :
          k # l => PutFiles[k].path # PutFiles[l].path
    /\ \A i \in 1..Len(dlResults) :
          IsSuccess(dlResults[i]) => \E k \in 1..Len(PutFiles) : PutFiles[k] = dlResults[i]
    /\ \A k, l \in 1..Len(uploadCalls) :
          k # l => uploadCalls[k].file_path # uploadCalls[l].file_path
    /\ \A k \in 1..Len(uploadCalls) :
          \E l \in 1..Len(PutFiles) : PutFiles[l].path = uploadCalls[k].file_path
    /\ \A k \in 1..Len(queue) :
          queue[k] # None =>
              /\ queue[k].path \in 1..Len(dlResults)
              /\ \E l \in 1..Len(PutFiles) : PutFiles[l] = queue[k]
    /\ dlThread = "running" =>
          /\ \A k \in 1..Len(putLog) : putLog[k].path # dlStarted[Len(dlStarted)]
          /\ \A k \in 1..Len(uploadCalls) :
                uploadCalls[k].file_path # dlStarted[Len(dlStarted)]

\* A file is being uploaded while the next download is in progress.
C8_Witness ==
    /\ dlThread = "running"
    /\ dlState = "downloading"
    /\ ulCall = "running"
    /\ Len(PutFiles) >= 1

\* C9: once main_pipeline has been left, on normal completion, on
\* cancellation or with an exception, the temporary directory it allocated
\* for a non-local run has been removed, and it is still removed when run()
\* has ended; a local run allocates none and the caller's folder, its
\* working directory, is never removed.
\* Violated: cleanup() can raise and leave the directory, and it runs
\* before the download thread of a cancelled task is joined, which is still
\* writing there.
C9_WorkingDirectoryReleased ==
    /\ (pcMain \in {"shutdown", "done", "failed"} /\ temp_dir_manager # "None") =>
          dirs.vdu = "removed"
    /\ cloud = LOCAL_SAVE_OPTION =>
          /\ temp_dir_manager = "None"
          /\ target_dir \in {"unset", "caller"}
          /\ dirs.vdu = "absent"
    /\ dirs.caller = "present"

\* The progress values of one emitter, in emission order.
ProgressOf(src) ==
    LET sel(e) == e.type = "progress" /\ e.src = src
    IN SelectSeq(events, sel)

NonDecreasing(s) == \A k, l \in 1..Len(s) : k < l => s[k].percent <= s[l].percent

\* C10: every progress value is an integer from 0 to 100; the downloader's
\* values do not decrease and are at most 52, the uploader's do not
\* decrease and are at least 52.
C10_ProgressRanges ==
    /\ \A k \in 1..Len(events) :
          events[k].type = "progress" => events[k].percent \in 0..100
    /\ NonDecreasing(ProgressOf("downloader"))
    /\ NonDecreasing(ProgressOf("uploader"))
    /\ \A k \in 1..Len(ProgressOf("downloader")) :
          ProgressOf("downloader")[k].percent <= 52
    /\ \A k \in 1..Len(ProgressOf("uploader")) :
          ProgressOf("uploader")[k].percent >= 52

\* All three downloads and two uploads of a run have reported progress.
C10_Witness ==
    /\ Len(ProgressOf("downloader")) = 3
    /\ Len(ProgressOf("uploader")) >= 2
    /\ ProgressOf("downloader")[3].percent > ProgressOf("downloader")[1].percent

-----------------------------------------------------------------------------
\* The progress values 100 emitted so far.
HundredEmitted ==
    \E k \in 1..Len(events) :
        events[k].type = "progress" /\ events[k].percent = 100

\* A download or an upload of the run is outstanding: a download call is
\* executing, or an upload call is executing or its result not yet recorded.
WorkOutstanding ==
    \/ dlThread = "running"
    \/ ulCall = "running"
    \/ ulState = "uploading"
    \/ Len(uploadCalls) > Len(ulResults)

\* C11: the progress value 100 is emitted only on final completion: once it
\* has been emitted no download and no upload of the run is outstanding.
\* Violated: the uploader emits its progress before it starts the upload
\* it counts, so the last file's upload is still to run when 100 goes out.
C11_HundredOnlyOnCompletion ==
    HundredEmitted => ~WorkOutstanding

-----------------------------------------------------------------------------
\* Properties of upload_single_file and the strategies

\* upload_single_file has been called and has returned.
UploadReturned == upRun > 0 /\ upc = "idle"

Contains(text, piece) == \E k \in 1..Len(text) : text[k] = piece

\* C12: for a task whose backend name is not registered, upload_single_file
\* returns at once an error result whose error text contains that name and
\* whose filename is the task's; it raises nothing, and no strategy is
\* instantiated or called (so the backend is not touched).
C12_UnregisteredBackendIsAnError ==
    (task.cloud_storage \notin UPLOADER_STRATEGIES /\ upRun > 0) =>
        /\ upc = "idle"
        /\ upResult.status = STATUS_ERROR
        /\ Contains(upResult.error, task.cloud_storage)
        /\ upResult.filename = task.filename
        /\ strategyLog = <<>>
        /\ apiLog = <<>>
        /\ strategyOutcome = NoOutcome

\* Two calls with an unregistered backend have returned.
C12_Witness ==
    /\ task.cloud_storage = UnregisteredStorage
    /\ upRun = 2
    /\ upResult.status = STATUS_ERROR

\* C13: upload_single_file never raises to its caller; when the strategy's
\* upload raises, whatever the exception, the call returns an error result
\* with the task's filename and the exception's string.
C13_DispatcherNeverRaises ==
    /\ upResult.status # "raised"
    /\ strategyOutcome.kind = "raises" =>
          /\ upc = "idle"
          /\ upResult.status = STATUS_ERROR
          /\ upResult.filename = task.filename
          /\ upResult.error = <<strategyOutcome.msg>>

\* A strategy has raised something that is not an UploadError and the call
\* has returned an error result.
C13_Witness ==
    /\ strategyOutcome.kind = "raises"
    /\ strategyOutcome.exc = "Exception"
    /\ upResult.status = STATUS_ERROR

\* The class the registry holds for each name, and the backend calls each
\* class makes.
RegisteredClass ==
    [n \in UPLOADER_STRATEGIES |->
        IF n = "Google Drive" THEN "GoogleDriveUploaderStrategy"
        ELSE IF n = "Yandex.Disk" THEN "YandexDiskUploaderStrategy"
        ELSE "LocalSaveStrategy"]

CallsOf ==
    [c \in {"GoogleDriveUploaderStrategy", "YandexDiskUploaderStrategy",
            "LocalSaveStrategy"} |->
        IF c = "GoogleDriveUploaderStrategy"
        THEN {"list", "create_folder", "create_file"}
        ELSE IF c = "YandexDiskUploaderStrategy"
        THEN {"check_token", "exists", "mkdir", "upload", "get_download_link"}
        ELSE {"makedirs", "copy2"}]

\* The calls of one upload_single_file call that carry the file.
TransferCalls(run) ==
    LET sel(c) == c.run = run /\ c.op \in {"create_file", "upload", "copy2"}
    IN SelectSeq(apiLog, sel)

\* C14: for a registered backend each upload_single_file call instantiates
\* and invokes the strategy registered under the task's backend name, once:
\* only that strategy's backend calls are made, the file is transferred at
\* most once per call also when the transfer fails, and the result of a
\* call whose strategy returned is the strategy's result with the task's
\* filename added.
C14_RegisteredStrategyInvokedOnce ==
    task.cloud_storage \in UPLOADER_STRATEGIES =>
        /\ Len(strategyLog) = upRun
        /\ \A k \in 1..Len(strategyLog) :
              /\ strategyLog[k].run = k
              /\ strategyLog[k].strategy = RegisteredClass[task.cloud_storage]
        /\ \A k \in 1..Len(apiLog) :
              apiLog[k].op \in CallsOf[RegisteredClass[task.cloud_storage]]
        /\ \A r \in 1..upRun : Len(TransferCalls(r)) <= 1
        /\ (UploadReturned /\ strategyOutcome.kind = "returns") =>
              /\ upResult.status = strategyOutcome.result.status
              /\ upResult.ref = strategyOutcome.result.ref
              /\ upResult.filename = task.filename

\* The cloud-disk strategy has been invoked in two calls and has
\* transferred the file once in each; the second call has returned its
\* result.
C14_Witness ==
    /\ task.cloud_storage = "Yandex.Disk"
    /\ upRun = 2
    /\ UploadReturned
    /\ strategyOutcome.kind = "returns"
    /\ Len(TransferCalls(1)) = 1
    /\ Len(TransferCalls(2)) = 1
    /\ \A n \in store : n.kind = "file" => n.content = 2

\* The backend calls of the folder chain.
ChainCalls(run) ==
    LET sel(c) == c.run = run /\ c.op \in {"list", "create_folder"}
    IN SelectSeq(apiLog, sel)

FolderCreations(run) ==
    LET sel(c) == c.run = run /\ c.op = "create_folder"
    IN SelectSeq(apiLog, sel)

\* C15: the cloud-drive folder chain is idempotent.  Every folder creation
\* directly follows a query for the same name under the same parent, and
\* no parent ever holds two folders of one name; a path without a named
\* part makes no query and no creation and resolves to the root; a chain
\* that has returned leaves the path's folders in place, ending at the id
\* it returned; and a later chain for the same path creates nothing and
\* returns the same id.
C15_FolderChainIdempotent ==
    task.cloud_storage = "Google Drive" =>
        /\ \A k \in 1..Len(apiLog) :
              apiLog[k].op = "create_folder" =>
                  /\ k > 1
                  /\ apiLog[k - 1] =
                        [apiLog[k] EXCEPT !.op = "list", !.fault = "ok"]
        /\ \A m, n \in store :
              (m.kind = "folder" /\ n.kind = "folder" /\ m.parent = n.parent
                  /\ m.name = n.name) => m.id = n.id
        /\ NonEmpty(task.cloud_folder_path) = <<>> =>
              /\ \A r \in 1..upRun : ChainCalls(r) = <<>>
              /\ \A k \in 1..Len(chainIds) : chainIds[k].id = ROOT
        /\ \A k \in 1..Len(chainIds) :
              /\ Resolve(store, {ROOT}, NonEmpty(task.cloud_folder_path))
                    = {chainIds[k].id}
              /\ Len(ChainCalls(chainIds[k].run))
                    >= Len(NonEmpty(task.cloud_folder_path))
        /\ \A k, l \in 1..Len(chainIds) :
              k < l => /\ chainIds[l].id = chainIds[k].id
                       /\ FolderCreations(chainIds[l].run) = <<>>

\* The chain for a/b has run twice on a drive that had neither folder: the
\* first run created both.
C15_Witness ==
    /\ task.cloud_storage = "Google Drive"
    /\ NonEmpty(task.cloud_folder_path) = <<"a", "b">>
    /\ Len(chainIds) = 2
    /\ Len(FolderCreations(1)) = 2
    /\ Len(ChainCalls(2)) = 2

\* No backend call of the given upload_single_file call was made to fail.
NoFault(run) ==
    \A k \in 1..Len(apiLog) : apiLog[k].run = run => apiLog[k].fault = "ok"

\* The folder the task's destination path leads to, if the backend has it.
Destination == Resolve(store, {ROOT}, NonEmpty(task.cloud_folder_path))

\* The files of the task's name in the destination folder.
Uploaded ==
    {n \in store : n.kind = "file" /\ n.parent \in Destination
                     /\ n.name = task.filename}

\* C16: a cloud strategy's upload creates every missing folder of the
\* destination path: with valid credentials and a backend that answers
\* every call, the call returns Success, the path's folders exist and the
\* file is in the last of them.
\* Violated: the cloud-disk strategy makes one mkdir of the whole path, which
\* the disk refuses when the folder above the last one is missing.
C16_CloudUploadCreatesMissingFolders ==
    (/\ task.cloud_storage \in {"Google Drive", "Yandex.Disk"}
     /\ cred = "valid"
     /\ UploadReturned
     /\ NoFault(upRun)) =>
        /\ upResult.status = STATUS_SUCCESS
        /\ Destination # {}
        /\ Uploaded # {}

\* C17: every strategy overwrites or creates at the final name: after a
\* call that returned Success the destination folder holds exactly one file
\* of the task's name, with the content that call uploaded.
\* Violated: the cloud-drive strategy always creates a new file, so a second
\* upload leaves two files of the same name.
C17_UploadOverwritesOrCreates ==
    (/\ task.cloud_storage \in UPLOADER_STRATEGIES
     /\ UploadReturned
     /\ upResult.status = STATUS_SUCCESS) =>
        /\ Uploaded # {}
        /\ \A m, n \in Uploaded : m = n
        /\ \A n \in Uploaded : n.content = upRun /\ n.size = SourceSize

-----------------------------------------------------------------------------
\* Properties of download_video

\* A download_video call has ended.
CallEnded(i) == dvCall[i].pc = "done"

\* C18: download_video does not raise for the expected failures (the fetch
\* tool returns a non-zero code or raises, no output file is found): every
\* call that has ended has returned, and a path is returned only after the
\* fetch tool succeeded and is the path of a file that exists.
\* Violated: download_video of downloader.py turns every failure into a
\* raised DownloadError and returns only on success.
C18_DownloadVideoReturnsErrors ==
    \A i \in 1..Len(dvCall) :
        CallEnded(i) =>
            /\ dvCall[i].outcome.kind = "returned"
            /\ dvCall[i].outcome.path # NoFile =>
                  /\ dvCall[i].ydl \notin {"retcode", "raises"}
                  /\ dvCall[i].outcome.path \in dvDir

\* C19: a PreFlightCheckWorker that has ended has emitted finished exactly
\* once and one that has not ended has emitted nothing.  With ffmpeg missing
\* the event is (False, message) and no check_connection was called; with a
\* destination that has no registered strategy it is (False, message) and no
\* check_connection was called; when the selected strategy's check_connection
\* returned, it was called once, on the strategy registered for the
\* destination and with the chosen path, and the event carries exactly the
\* returned pair; when the ffmpeg check or check_connection raised, the
\* event is (False, message).
C19_PreFlightEmitsOnce ==
    /\ Len(pre.emitted) = (IF pre.pc = "done" THEN 1 ELSE 0)
    /\ pre.pc = "done" =>
          /\ pre.ffmpeg = "missing" =>
                ~pre.emitted[1].ok /\ pre.calls = <<>>
          /\ pre.ffmpeg = "installed" /\ pre.cloud \notin UPLOADER_STRATEGIES =>
                ~pre.emitted[1].ok /\ pre.calls = <<>>
          /\ pre.check.kind = "returns" =>
                /\ pre.calls = <<[strategy |-> StrategyClassOf(pre.cloud),
                                  path |-> pre.path]>>
                /\ pre.cloud \in UPLOADER_STRATEGIES
                /\ pre.emitted[1].ok = pre.check.ok
                /\ pre.emitted[1].message = pre.check.message
          /\ pre.check.kind = "raises" =>
                /\ pre.calls = <<[strategy |-> StrategyClassOf(pre.cloud),
                                  path |-> pre.path]>>
                /\ ~pre.emitted[1].ok
                /\ pre.emitted[1].message = CriticalError(pre.check.message)
                /\ pre.check.message # <<>>
          /\ pre.ffmpeg = "raises" =>
                ~pre.emitted[1].ok /\ pre.calls = <<>>

\* C19 witness: the check of the local destination raised on a folder that
\* cannot be looked at, and the worker has emitted (False, message) with the
\* text of the exception, once.
C19_Witness ==
    /\ pre.pc = "done"
    /\ pre.calls # <<>>
    /\ pre.calls[1].strategy = "LocalSaveStrategy"
    /\ pre.fs.stat = "raises"
    /\ pre.check.kind = "raises"
    /\ pre.emitted =
         <<PreFlightFinished(FALSE,
              <<"critical error during the check", "[Errno ", "36", "] ",
                "File name too long", ": '", pre.path, "'">>)>>

\* The slot of the pre-flight signal runs on a failure / on a success.
HandlesPreFlightFailure ==
    /\ guiQueue # <<>>
    /\ Head(guiQueue).sig = "pre_flight_finished"
    /\ ~Head(guiQueue).ok
    /\ guiQueue' = Tail(guiQueue)

HandlesPreFlightSuccess ==
    /\ guiQueue # <<>>
    /\ Head(guiQueue).sig = "pre_flight_finished"
    /\ Head(guiQueue).ok
    /\ guiQueue' = Tail(guiQueue)

\* The box of the failed check is closed and the slot goes on.
ClosesFailureBox == modal = "check_failed" /\ modal' = "none"

\* A DownloadUploadWorker is created, or one is given to the thread pool.
StartsPipelineWorker ==
    \/ pw' # pw /\ pw'.pos = "setup"
    \/ /\ workers' # workers
       /\ workers'[Len(workers')] = "DownloadUploadWorker"

\* After the step no worker has been added and one more message box is
\* shown, with the text of the signal being handled.
FailureShown ==
    /\ workers' = workers
    /\ pw' = pw
    /\ Len(shown') = Len(shown) + 1
    /\ shown'[Len(shown')].text = Head(guiQueue).message
    /\ modal' = "check_failed"

\* After the step no worker has been added, the box of the failure is the
\* last one shown, and the window is idle.
BackToIdle ==
    /\ workers' = workers
    /\ pw' = pw
    /\ shown' = shown
    /\ shown[Len(shown)].title = "Check failed"
    /\ ui'.start_btn /\ ui'.settings_btn /\ ~ui'.cancel_btn

\* C20: the handling of a pre-flight failure creates and starts no
\* DownloadUploadWorker, shows one message box whose text is the failure
\* message as emitted, and, the box closed, leaves start and settings
\* enabled and cancel disabled; no worker is created or started while the
\* box is open; and every step in which a DownloadUploadWorker is created or
\* started is the handling of a pre-flight success.
C20_FailedPreFlightStartsNothing ==
    [][/\ HandlesPreFlightFailure => FailureShown
       /\ ClosesFailureBox => BackToIdle
       /\ modal # "none" => workers' = workers /\ ~StartsPipelineWorker
       /\ modal # "none" /\ modal' # "none" => ~ui'.start_btn /\ ~ui'.cancel_btn
       /\ StartsPipelineWorker => HandlesPreFlightSuccess]_vars

\* C20 witness: a pre-flight failure has been handled: its message is on
\* display, no DownloadUploadWorker exists and the window is idle.
C20_Witness ==
    /\ pre.pc = "done"
    /\ modal = "none"
    /\ ~pre.emitted[1].ok
    /\ guiQueue = <<>>
    /\ shown # <<>>
    /\ shown[Len(shown)].text = pre.emitted[1].message
    /\ shown[Len(shown)].level = "critical"
    /\ pw = NoWorker
    /\ ui.start_btn /\ ui.settings_btn /\ ~ui.cancel_btn

\* The pre-flight worker has called LocalSaveStrategy.check_connection and
\* the call has ended.
LocalChecked ==
    /\ pre.pc = "done"
    /\ pre.calls # <<>>
    /\ pre.calls[1].strategy = "LocalSaveStrategy"

\* C21: LocalSaveStrategy.check_connection returns ok=True exactly when a
\* path is given, exists, is a directory and is writable; otherwise it
\* returns ok=False with the message of the first check that fails, in the
\* order: not given, does not exist, not a directory, not writable.
\* Violated: for a folder that stat cannot look at, path.exists() raises
\* OSError and the method returns nothing.
C21_LocalCheckFirstFailure ==
    LocalChecked =>
        /\ pre.check.kind = "returns"
        /\ pre.check.ok <=>
              pre.path # "" /\ pre.fs.exists /\ pre.fs.is_dir /\ pre.fs.writable
        /\ ~pre.check.ok =>
              pre.check.message[1] =
                 (IF pre.path = "" THEN "no path for the local save"
                  ELSE IF ~pre.fs.exists THEN "the path does not exist"
                  ELSE IF ~pre.fs.is_dir THEN "the path is not a directory"
                  ELSE "no write permission")

\* C22: run() emits nothing while main_pipeline runs.  When main_pipeline
\* raised CancelledError, run() has emitted finished([], [], True) once and
\* nothing else, so no error; when main_pipeline raised another exception,
\* run() has emitted error once, with the text str(exception), and nothing
\* else, so no finished; when main_pipeline returned, run() has emitted
\* nothing.
C22_RunMapsOutcomeToEvents ==
    /\ ~RunEnded => RunEvents = <<>>
    /\ (RunEnded /\ mainExc.class = "CancelledError") =>
          RunEvents = <<FinishedEvent("run", <<>>, <<>>, TRUE)>>
    /\ (RunEnded /\ mainExc.class \notin {"none", "CancelledError"}) =>
          /\ Len(RunEvents) = 1
          /\ IsError(RunEvents[1])
          /\ RunEvents[1].text = ExceptionStr(mainExc)
          /\ RunEvents[1].text # <<>>
    /\ (RunEnded /\ mainExc = NoException) => RunEvents = <<>>
    /\ pcMain = "failed" <=>
          (RunEnded /\ mainExc.class \notin {"none", "CancelledError"})

\* C22 witness: the tasks were cancelled and cleanup() raised in the finally
\* block; run() has handled that exception and emitted its text.
C22_Witness ==
    /\ pcMain = "failed"
    /\ dlState = "cancelled"
    /\ mainExc.class = "OSError"
    /\ Len(RunEvents) = 1
    /\ RunEvents[1].text =
          <<"[Errno ", "39", "] ", "Directory not empty", ": '", "vdu", "'">>

\* The task goes to a cloud strategy whose credential is absent, or to the
\* cloud disk with a token the disk rejects.
CredentialUnusable ==
    \/ task.cloud_storage \in {"Google Drive", "Yandex.Disk"} /\ cred = "none"
    \/ task.cloud_storage = "Yandex.Disk" /\ cred = "invalid"

\* C23: with the credential absent (either cloud strategy) or the cloud-disk
\* token invalid, every upload_single_file call invokes the strategy once,
\* the only backend call ever made is the token check, at most one per call
\* and none when the credential is absent, the backend holds what it held,
\* and a call that has returned has returned an error result.
C23_UnusableCredentialFailsFirst ==
    CredentialUnusable =>
        /\ Len(strategyLog) = upRun
        /\ \A k \in 1..Len(apiLog) :
              /\ apiLog[k].op = "check_token"
              /\ cred # "none"
              /\ \A j \in 1..Len(apiLog) : apiLog[j].run = apiLog[k].run => j = k
        /\ store \in InitStores
        /\ UploadReturned =>
              /\ upResult.status = STATUS_ERROR
              /\ upResult.filename = task.filename

\* C23 witness: two calls with a token the disk rejects have both ended,
\* each after its token check.
C23_Witness ==
    /\ task.cloud_storage = "Yandex.Disk"
    /\ cred = "invalid"
    /\ upRun = 2
    /\ UploadReturned
    /\ Len(apiLog) = 2
    /\ apiLog[2].fault = "ok"
    /\ upResult.status = STATUS_ERROR

-----------------------------------------------------------------------------
\* Properties of process_single_video

\* How often a call made the named call.
PsvCount(call, op) ==
    LET is(x) == x = op IN Len(SelectSeq(call.ops, is))

\* C24: process_single_video never raises, and every call that created its
\* temporary directory has removed that directory, with one rmtree, before
\* it returned its result.
\* Violated: os.makedirs stands before the try block and shutil.rmtree in
\* the finally block, so an OSError of either leaves the function; after a
\* failed rmtree the directory is still there.
C24_NeverRaisesAndCleansUp ==
    \A k \in 1..Len(psvCalls) :
        psvCalls[k].pc = "done" =>
            /\ psvCalls[k].outcome.kind = "returned"
            /\ psvCalls[k].created =>
                  /\ PsvCount(psvCalls[k], "rmtree") = 1
                  /\ k \notin psvDirs

\* C25: a call with video_url or cloud_storage missing returns an error
\* result and neither creates nor removes a temporary directory.
\* Violated: the directory is created before validate_args is called and
\* removed by the finally block.
C25_MissingArgumentTouchesNoDirectory ==
    \A k \in 1..Len(psvCalls) :
        psvCalls[k].pc = "done" /\ validate_args(psvCalls[k].args) # "ok" =>
            /\ psvCalls[k].outcome.kind = "returned"
            /\ psvCalls[k].outcome.status = STATUS_ERROR
            /\ PsvCount(psvCalls[k], "makedirs") = 0
            /\ PsvCount(psvCalls[k], "rmtree") = 0

-----------------------------------------------------------------------------
\* Properties of batch_download_videos

\* The loop is over: batch_download_videos returns its results.
BatchReturned == batchPending = {}

\* The result describes the call: success with the URL and the returned
\* path, or error with the URL and the text of the exception.
Describes(r, call) ==
    /\ r.url = call.url
    /\ call.outcome.kind = "returned" =>
          r.status = STATUS_SUCCESS /\ r.path = call.outcome.path
    /\ call.outcome.kind = "raised" =>
          r.status = STATUS_ERROR /\ r.message = call.outcome.error

\* C26: whatever the order in which the threads run and end, the results
\* and the futures already yielded are as many, no result is appended for
\* a download that has not ended, and when batch_download_videos returns
\* its results match the input URLs one to one: each result is the success
\* (url, path) of a download that returned or the error (url, text) of a
\* download that raised.
C26_BatchOneResultPerUrl ==
    /\ Len(batchResults) + Cardinality(batchPending) = Len(dvCall)
    /\ \A i \in batchPending : i \in 1..Len(dvCall)
    /\ \A i \in 1..Len(dvCall) : dvCall[i].pc # "done" => i \in batchPending
    /\ BatchReturned =>
          \E f \in [1..Len(dvCall) -> 1..Len(dvCall)] :
              /\ \A j, k \in 1..Len(dvCall) : f[j] = f[k] => j = k
              /\ \A k \in 1..Len(dvCall) : Describes(batchResults[k], dvCall[f[k]])

\* C26 witness: two downloads, the second ended first and failed, the first
\* returned a file; batch_download_videos has returned both results.
C26_Witness ==
    /\ BatchReturned
    /\ Len(dvCall) = 2
    /\ dvCall[1].outcome.kind = "returned"
    /\ dvCall[2].outcome.kind = "raised"
    /\ batchResults[1].status = STATUS_ERROR
    /\ batchResults[2].status = STATUS_SUCCESS

\* The calls of one getter, as positions in the history.
GetterCalls(fn) == {k \in 1..Len(authCalls) : authCalls[k].fn = fn}

\* C27: get_yandex_token caches the first token it reads: once a call has
\* returned a token, every later call returns that same token without a look
\* at the configuration, whatever the configuration holds by then; a call
\* that finds no token configured raises AuthError and caches nothing.
C27_YandexTokenCachedOnce ==
    \A k \in GetterCalls("get_yandex_token") :
        LET call == authCalls[k]
        IN /\ call.kind = "raised" =>
                /\ call.value = "AuthError"
                /\ call.cfg = "None"
                /\ call.after = "None"
           /\ call.kind = "returned" /\ call.before = "None" =>
                /\ call.value = call.cfg
                /\ call.value # "None"
                /\ call.after = call.value
           /\ \A j \in GetterCalls("get_yandex_token") :
                j < k /\ authCalls[j].kind = "returned" =>
                    /\ call.kind = "returned"
                    /\ call.value = authCalls[j].value
                    /\ call.steps = <<>>

C27_Witness ==
    /\ Len(authCalls) = 3
    /\ \A k \in 1..3 : authCalls[k].fn = "get_yandex_token"
    /\ authCalls[1].kind = "raised"
    /\ authCalls[2].kind = "returned"
    /\ authCalls[3].kind = "returned"
    /\ authCalls[3].cfg # authCalls[2].value

\* What a call of get_google_drive_credentials may do, in order.
GoogleStepOrders ==
    {<<>>, <<"load">>, <<"load", "refresh">>, <<"load", "oauth">>,
     <<"load", "refresh", "remove", "oauth">>}

Ran(call, step) == \E i \in 1..Len(call.steps) : call.steps[i] = step

\* C28: get_google_drive_credentials tries, in this order, the valid cached
\* credentials, a valid token file, the refresh of an expired token that has
\* a refresh token, and the OAuth flow, and stops at the first that yields
\* credentials: the OAuth flow runs only when all the earlier ones failed, a
\* failed refresh removes the token file and the flow runs after it, what is
\* returned is cached, and while the cached credentials are valid a call
\* runs neither the refresh nor the flow.
\* Violated: after a failed refresh os.remove is called with no handler
\* around it; when it raises, the call ends with that exception, the token
\* file is left and the OAuth flow does not run.
C28_GoogleResolutionOrder ==
    \A k \in GetterCalls("get_google_drive_credentials") :
        LET call == authCalls[k]
        IN /\ call.steps \in GoogleStepOrders
           /\ call.before.state = "valid" =>
                /\ call.steps = <<>>
                /\ call.kind = "returned"
                /\ call.value = call.before
           /\ Ran(call, "load") =>
                call.before.state # "valid"
           /\ call.steps = <<"load">> =>
                /\ call.cfg.token_file = "valid"
                /\ call.kind = "returned"
           /\ Ran(call, "refresh") =>
                call.cfg.token_file = "expired"
           /\ call.steps = <<"load", "refresh">> =>
                call.kind = "returned"
           /\ Ran(call, "refresh") /\ call.steps # <<"load", "refresh">> =>
                /\ Ran(call, "remove")
                /\ Ran(call, "oauth")
                /\ call.after.token_file # call.cfg.token_file
           /\ Ran(call, "oauth") =>
                /\ call.cfg.token_file # "valid"
                /\ call.cfg.token_file = "expired" => Ran(call, "remove")
           /\ call.kind = "returned" =>
                /\ call.value.state = "valid"
                /\ call.after.cache = call.value
           /\ call.kind = "raised" =>
                call.after.cache = call.before

\* The value a file gives a key, as the function reads it.
EnvKeys(file) == {ReadEnv(file)[i].key : i \in 1..Len(ReadEnv(file))}
EnvValue(file, key) ==
    LET env_vars == ReadEnv(file)
    IN env_vars[CHOOSE i \in 1..Len(env_vars) : env_vars[i].key = key].value
GivenKeys(settings) == {settings[i].key : i \in 1..Len(settings)}

\* C29: save_specific_settings_to_env sets exactly the given keys in .env
\* and leaves every other variable of the file with its value; it creates
\* the file when there is none; a second call with the same settings leaves
\* the content the first call wrote.  In the code a value is written as it
\* is, so a line break in it starts a new line of the file.
C29_SaveSetsOnlyGivenKeys ==
    \A k \in 1..Len(envSaves) :
        LET save == envSaves[k]
        IN save.fn = "save_specific_settings_to_env" /\ save.kind = "returned" =>
            /\ save.after.exists
            /\ EnvKeys(save.after) = EnvKeys(save.before) \cup GivenKeys(save.settings)
            /\ \A i \in 1..Len(save.settings) :
                 EnvValue(save.after, save.settings[i].key)
                    = QuotedValue(save.settings[i].value)
            /\ \A key \in EnvKeys(save.before) \ GivenKeys(save.settings) :
                 EnvValue(save.after, key) = EnvValue(save.before, key)
            /\ k > 1 /\ envSaves[k - 1].kind = "returned"
                 /\ envSaves[k - 1].fn = save.fn
                 /\ envSaves[k - 1].settings = save.settings =>
                    save.after = save.before

\* The positions of putLog that hold the end-of-stream marker.
MarkerPuts == {k \in 1..Len(putLog) : putLog[k] = None}
MarkerInQueue == \E k \in 1..Len(queue) : queue[k] = None

\* C30, as stated: every run that has ended has put the marker exactly
\* once.  A cancelled run and a run that failed to set up have not.
C30_Original_MarkerInEveryRun ==
    pcMain \in {"done", "failed"} => Cardinality(MarkerPuts) = 1

\* C30: the downloader task that runs to its end puts the marker exactly
\* once, as the last value it puts and after the results of all URLs, also
\* when every download failed or there is no URL; a cancelled task puts none;
\* the uploader task has returned exactly when it has taken the marker from
\* the queue, and by then it has dispatched every file put before it and
\* holds a result for each.
C30_MarkerEndsTheStream ==
    /\ Cardinality(MarkerPuts) <= 1
    /\ MarkerPuts # {} <=> dlState = "done"
    /\ MarkerPuts # {} =>
          /\ MarkerPuts = {Len(putLog)}
          /\ Len(dlResults) = Len(urls)
    /\ MarkerInQueue => queue[Len(queue)] = None
    /\ ulState = "done" <=>
          ulState # "none" /\ MarkerPuts # {} /\ ~MarkerInQueue
    /\ ulState = "done" =>
          /\ queue = <<>>
          /\ Len(uploadCalls) = Len(PutFiles)
          /\ Len(ulResults) = Len(PutFiles)
          /\ \A k \in 1..Len(PutFiles) :
                uploadCalls[k].file_path = PutFiles[k].path

\* Three URLs, the second download failed: the marker went in third, the
\* uploader dispatched both files and returned.
C30_Witness ==
    /\ Len(urls) = 3
    /\ dlState = "done"
    /\ ulState = "done"
    /\ IsFailure(dlResults[2])
    /\ putLog = <<dlResults[1], dlResults[3], None>>
    /\ Len(ulResults) = 2

\* A step that starts a download: the one of the next URL, with no download
\* running and the results of all earlier URLs in.
StartsNextDownload ==
    /\ dlThread # "running"
    /\ dlStarted' = Append(dlStarted, Len(dlStarted) + 1)
    /\ Len(dlResults') = Len(dlStarted)

\* A step that starts an upload: one upload, with none running and the
\* results of all earlier uploads in.
StartsNextUpload ==
    /\ ulCall = "idle"
    /\ Len(uploadCalls') = Len(uploadCalls) + 1
    /\ Len(ulResults') = Len(uploadCalls)

\* C31: within a run downloads go one at a time in input order and uploads
\* one at a time: a download starts only with no download in flight and the
\* earlier ones returned, an upload only with no upload in flight.
C31_OneDownloadOneUploadAtATime ==
    [][(dlStarted' # dlStarted => StartsNextDownload)
       /\ (uploadCalls' # uploadCalls => StartsNextUpload)]_vars

\* The third download and the second upload are in flight together.
C31_Witness ==
    /\ dlStarted = <<1, 2, 3>>
    /\ dlThread = "running"
    /\ Len(uploadCalls) = 2
    /\ ulCall = "running"
    /\ Len(ulResults) = 1

\* C32: a run that has ended with the flag never set, every call having
\* returned, has emitted finished with was_cancelled False and the full
\* lists; a run whose flag was set while an activity was outstanding and
\* that has ended, its calls in flight having returned, has emitted
\* finished with was_cancelled True.
\* Violated: when cleanup() raises in the finally block that follows the
\* cancellation, run() emits error where finished(.., True) is due; and a
\* run whose temporary directory cannot be made ends with error before the
\* polling loop.
C32_RunEndsWithFinished ==
    /\ (RunEnded /\ ~cancellation_flag) =>
          \E k \in CompletedEvents : FullFinish(events[k])
    /\ (RunEnded /\ cancelAt.phase = "running") =>
          \E k \in 1..Len(events) : CancelledFinish(events[k])

\* The uploader waits for an item that nobody will put.
UploaderLeftWaiting ==
    /\ dlState = "raised"
    /\ ulState = "waiting"
    /\ queue = <<>>

\* C33: when the download step raises for a URL, the exception becomes an
\* error result or an error event, the marker is still put so that the
\* uploader is not left waiting, and the run can still end.  In the code the
\* downloader task ends with the exception and puts nothing.
C33_RaisedDownloadStillEndsStream ==
    dlState = "raised" =>
        /\ MarkerPuts # {}
        /\ ~UploaderLeftWaiting
        /\ \E k \in 1..Len(events) : IsError(events[k])

\* The backend calls of one upload_single_file call, in order.
CallsOfRun(r) ==
    LET ofRun(c) == c.run = r
    IN SelectSeq(apiLog, ofRun)

RunFailed(r) ==
    \E k \in 1..Len(CallsOfRun(r)) : CallsOfRun(r)[k].fault # "ok"

\* C34: in the Google Drive upload a backend error ends the operation at
\* the failing call and gives an error: after a failed folder lookup no
\* folder is created and no further part of the path is processed, after a
\* failed folder creation no file is transferred, a failed transfer leaves
\* no file; the result is an error without a reference, never a success.
C34_DriveErrorStopsUpload ==
    task.cloud_storage = "Google Drive" =>
        /\ \A r \in 1..upRun :
              LET calls == CallsOfRun(r)
              IN /\ \A k \in 1..Len(calls) :
                       calls[k].fault # "ok" => k = Len(calls)
                 /\ RunFailed(r) =>
                       \A n \in store : ~(n.kind = "file" /\ n.content = r)
        /\ upRun >= 1 /\ RunFailed(upRun) =>
              /\ upc = "idle"
              /\ upResult.status = STATUS_ERROR
              /\ upResult.ref = ROOT
              /\ strategyOutcome.kind = "raises"

\* The path a/b on an empty drive: folder a was created, the creation of b
\* failed, and the call returned an error.
C34_Witness ==
    /\ task.cloud_storage = "Google Drive"
    /\ upRun = 1
    /\ upc = "idle"
    /\ Len(apiLog) = 4
    /\ apiLog[2].op = "create_folder" /\ apiLog[2].fault = "ok"
    /\ apiLog[4].op = "create_folder" /\ apiLog[4].fault = "api_error"
    /\ upResult.status = STATUS_ERROR

\* The slot of the worker's finished signal runs.
HandlesFinished ==
    /\ guiQueue # <<>>
    /\ Head(guiQueue).sig = "finished"
    /\ guiQueue' = Tail(guiQueue)

\* A worker started from the window is in flight, or its terminal signal is
\* still on its way to the window.
PreFlightInFlight ==
    \/ pre.pc \in {"queued", "check"}
    \/ \E k \in 1..Len(guiQueue) : guiQueue[k].sig = "pre_flight_finished"

PipelineInFlight ==
    \/ pw.state = "running"
    \/ cleaning > 0
    \/ \E k \in 1..Len(guiQueue) : guiQueue[k].sig = "finished"

\* With the start button enabled nothing is in flight, a pre-flight and a
\* pipeline worker are never in flight together, and the cancel button is
\* enabled only while start is disabled and no pre-flight is in flight.
GuiGate ==
    /\ ui.start_btn => ~PreFlightInFlight /\ ~PipelineInFlight
    /\ ~(PreFlightInFlight /\ PipelineInFlight)
    /\ ui.cancel_btn => ~ui.start_btn /\ ~PreFlightInFlight

\* What a step may do to the buttons and the workers.
GuiGateStep ==
    /\ (starts' # starts /\ form.urls = <<>>) =>
           workers' = workers /\ ui' = ui /\ ui.start_btn /\ ~ui.cancel_btn
    /\ (starts' # starts /\ form.urls # <<>>) =>
           /\ ~ui'.start_btn
           /\ workers' = Append(workers, "PreFlightCheckWorker")
    /\ workers' # workers => ui.start_btn \/ HandlesPreFlightSuccess
    /\ (~ui.start_btn /\ ui'.start_btn) =>
           ClosesFailureBox \/ HandlesFinished
    /\ (~ui.cancel_btn /\ ui'.cancel_btn) => HandlesPreFlightSuccess
    /\ (ui.cancel_btn /\ ~ui'.cancel_btn) =>
           \/ HandlesFinished
           \/ ui'.flag /\ guiQueue' = guiQueue
    /\ (~ui.flag /\ ui'.flag) => ui.cancel_btn /\ ~ui'.cancel_btn

\* C35: start_processing without a URL starts no worker and leaves the
\* window idle; with a URL the start button is disabled until a pre-flight
\* failure or the finished signal is handled, so that at most one pre-flight
\* or pipeline worker is in flight; the cancel button is enabled only from
\* the handling of a pre-flight success to a cancel request or the finished
\* signal; a cancel request sets the cancellation flag.  In the code the
\* worker emits finished before cleanup() and before run() returns, so the
\* start button is enabled, and the next workers are started, while the
\* worker of the run before is still at work.
C35_StartAndCancelGating ==
    []GuiGate /\ [][GuiGateStep]_vars

\* A call that uses the files of the run's temporary directory is executing:
\* the worker thread of download_video, or the strategy's upload.
CallUsesTempDir ==
    /\ target_dir = "vdu"
    /\ dlThread = "running" \/ ulCall = "running"

\* C36: when the temporary directory of a run is removed, no download call
\* and no upload call that works in it is still executing, on the
\* cancellation path as on normal completion.  In the code the finally block
\* of main_pipeline runs as soon as gather returns, and the worker threads
\* are joined only afterwards.
C36_TempDirRemovedAfterItsCalls ==
    dirs.vdu = "removed" => ~CallUsesTempDir

\* on_pre_flight_finished starts a DownloadUploadWorker.
WorkerCreated ==
    /\ workers' # workers
    /\ workers'[Len(workers')] = "DownloadUploadWorker"

\* The worker is given the destination and the folder that the pre-flight
\* worker checked, and a URL list that is not empty, as the one
\* start_processing accepted was.
RunsWhatWasChecked(w, p) ==
    /\ w.cloud = p.cloud
    /\ w.folder = p.path
    /\ w.urls # <<>>

\* C37: the run uses the backend, the folder and the URL list that were in
\* the form when start was pressed and that the pre-flight check validated;
\* an edit of the form before the pre-flight result changes none of them.
\* In the code on_pre_flight_finished reads the three widgets again.
C37_RunUsesWhatPreFlightChecked ==
    [][WorkerCreated => RunsWhatWasChecked(pw', pre)]_vars

\* The DownloadUploadWorker has ended, every signal it emitted has been
\* handled by the window, and no later start is under way: nothing is left
\* that would change the buttons without a click.
RunOverAndHandled ==
    /\ pw.state = "ended"
    /\ cleaning = 0
    /\ guiQueue = <<>>
    /\ modal = "none"
    /\ ~PreFlightInFlight

\* C38: after a pipeline run ends, completed, cancelled or by an exception
\* in the worker, the window returns to idle: the start button enabled and
\* the cancel button disabled.  In the code on_error sets the status line
\* only, and a run that ends with the error signal alone leaves the window
\* as it was during the run.
C38_IdleAfterEveryRun ==
    RunOverAndHandled => ui.start_btn /\ ~ui.cancel_btn

\* The successful results of batch_download_videos so far.
SuccessfulResults ==
    {k \in 1..Len(batchResults) : batchResults[k].status = STATUS_SUCCESS}

\* The file was written under the slug given to a download of that URL.
OwnFile(r) ==
    \E i \in 1..Len(dvCall) : dvCall[i].url = r.url /\ r.path.slug = dvCall[i].slug

\* C39: the path in a successful result of batch_download_videos is a file
\* that the download of that result's URL produced, and two input entries
\* with successful results never report the same file, whatever the order
\* in which the threads run.  In the code every download looks in the one
\* directory and falls back to any file with the extension.
C39_BatchReportsOwnFiles ==
    /\ \A k \in SuccessfulResults : OwnFile(batchResults[k])
    /\ \A j, k \in SuccessfulResults :
          j # k => batchResults[j].path # batchResults[k].path


=============================================================================
